---- MODULE Spec2Model ----
(***************************************************************************)
(* A model of the Metric Extraction & Normalization Pipeline of GDM-2025:  *)
(* the value normalizers, the column classifier and the cleaning stage of  *)
(* scripts/transform.py and the pattern catalog of scripts/scraper.py.     *)
(*                                                                         *)
(* Text is a sequence of one-character strings, so that substring tests,   *)
(* regular-expression searches, parsing and formatting are computed, not   *)
(* assumed.  A Python value is a record [t, m, e, s]: t is its type tag,   *)
(* (m, e) the decimal number m * 10^e of a float or an int, s its text.    *)
(* Floats are held as exact decimals (binary rounding is not modelled).    *)
(***************************************************************************)
EXTENDS Integers, Sequences, FiniteSets, TLC

VARIABLES
    value,          \* normalizer: the argument of the call
    npc,            \* normalizer: position of the driver
    multiplier,     \* normalize_numeric_value: the local 'multiplier'
    numeric,        \* what normalize_numeric_value(value) returned
    count,          \* what normalize_equipment_count(value) returned
    again,          \* what normalize_numeric_value(numeric) returned
    again_str,      \* what normalize_numeric_value(str(numeric)) returned
    df,             \* cleaning: the raw table (columns, rows of cells)
    tpc,            \* cleaning: position of the driver
    columns_by_type,\* what identify_metric_columns(df) returned
    df_clean,       \* what clean_data(df) returned
    text_content,   \* extraction: the text of the page
    xpc,            \* extraction: position of the driver
    metrics,        \* what extract_metrics_from_page returned
    soup_title,     \* name resolution: the page's title tag (present, text)
    soup_h1,        \* name resolution: the page's h1 tag (present, text)
    url,            \* name resolution: the page's URL
    country_name,   \* what extract_country_name returned
    cpc,             \* name resolution: position of the driver
    urls,           \* main: the URLs to scrape
    done,           \* main: how many URLs the loop has processed
    data,           \* main: what scrape_country returned last (<<>> is None)
    all_data,       \* main: the records kept
    successful_scrapes,\* main: count of kept records
    failed_scrapes, \* main: count of rejected URLs
    failed_urls,    \* main: the rejected URLs
    output_csv,     \* main: the CSV file (written, columns, rows)
    mpc,             \* main: position (scraping, saved, exited)
    df_in,          \* derivation: the clean table handed to calculate_derived_metrics
    df_before,      \* derivation: a copy of that table made before the call
    df_derived,     \* what calculate_derived_metrics returned (columns of cells)
    power_index_components,\* calculate_derived_metrics: the local 'power_index_components'
    dpc,             \* derivation: position (clean, derived, raised)
    raw_file,       \* pipeline: the file at INPUT_CSV (data/raw_data.csv)
    clean_csv,      \* pipeline: the file at OUTPUT_CSV (data/clean_data.csv)
    derived_csv,    \* pipeline: the file at DERIVED_CSV (data/kpi_data.csv)
    ppc             \* pipeline: position of run_transformation_pipeline

nvars == <<value, npc, multiplier, numeric, count, again, again_str>>

tvars == <<df, tpc, columns_by_type, df_clean>>

xvars == <<text_content, xpc, metrics>>

cvars == <<soup_title, soup_h1, url, country_name, cpc>>

mvars == <<urls, done, data, all_data, successful_scrapes, failed_scrapes, failed_urls, output_csv, mpc>>

dvars == <<df_in, df_before, df_derived, power_index_components, dpc>>

pvars == <<raw_file, clean_csv, derived_csv, ppc>>

vars == <<nvars, tvars, xvars, cvars, mvars, dvars, pvars>>

(***************************************************************************)
(* Bounds of the model.                                                    *)
(***************************************************************************)
MaxPieces == 3

MaxCols == 3

MaxRows == 2

\* sentences in a page text
MaxSentences == 2

\* URLs in the links file
MaxUrls == 3

\* scraper.py main: the 5 of 'len(data) > 5'
MIN_FIELDS == 5

(***************************************************************************)
(* Python values.                                                          *)
(***************************************************************************)
PyVal(t, m, e, s) == [t |-> t, m |-> m, e |-> e, s |-> s]

Str(s) == PyVal("str", 0, 0, s)

None == PyVal("None", 0, 0, <<>>)

NaN == PyVal("nan", 0, 0, <<>>)

Inf(sign) == PyVal("inf", sign, 0, <<>>)

Unset == PyVal("unset", 0, 0, <<>>)

Raised(exc) == PyVal(exc, 0, 0, <<>>)

RECURSIVE Canon(_, _, _)
\* m * 10^e without trailing zeros in m: one record per number
Canon(t, m, e) ==
    IF m = 0 THEN PyVal(t, 0, 0, <<>>)
    ELSE IF m % 10 = 0 THEN Canon(t, m \div 10, e + 1)
    ELSE PyVal(t, m, e, <<>>)

PyFloat(m, e) == Canon("float", m, e)

PyInt(m, e) == Canon("int", m, e)

IsNumber(v) == v.t \in {"float", "int", "inf", "nan"}

IsFinite(v) == v.t \in {"float", "int"}

(***************************************************************************)
(* Characters and text.                                                    *)
(***************************************************************************)
Upper == <<"A","B","C","D","E","F","G","H","I","J","K","L","M",
           "N","O","P","Q","R","S","T","U","V","W","X","Y","Z">>

Lower == <<"a","b","c","d","e","f","g","h","i","j","k","l","m",
           "n","o","p","q","r","s","t","u","v","w","x","y","z">>

Digits == <<"0","1","2","3","4","5","6","7","8","9">>

Whitespace == {" ", "\t", "\n", "\r"}

DigitSet == {Digits[i] : i \in 1..10}

DigitValues == [c \in DigitSet |-> (CHOOSE i \in 1..10 : Digits[i] = c) - 1]

IsDigit(c) == c \in DigitSet

DigitVal(c) == DigitValues[c]

UpperSet == {Upper[i] : i \in 1..26}

LowerOf == [c \in UpperSet |-> Lower[CHOOSE i \in 1..26 : Upper[i] = c]]

\* str.lower() on one character
LowerChar(c) == IF c \in UpperSet THEN LowerOf[c] ELSE c

\* str.lower()
lower(s) == [i \in 1..Len(s) |-> LowerChar(s[i])] \o <<>>

\* s[i:].startswith(w)
StartsAt(s, i, w) ==
    /\ i >= 1
    /\ i + Len(w) - 1 <= Len(s)
    /\ \A j \in 1..Len(w) : s[i + j - 1] = w[j]

\* w in s
Contains(s, w) == \E i \in 1..(Len(s) - Len(w) + 1) : StartsAt(s, i, w)

RECURSIVE Concat(_)
Concat(ss) == IF ss = <<>> THEN <<>> ELSE Head(ss) \o Concat(Tail(ss))

RECURSIVE LStrip(_)
LStrip(s) ==
    IF s # <<>> /\ Head(s) \in Whitespace THEN LStrip(Tail(s)) ELSE s

RECURSIVE RStrip(_)
RStrip(s) ==
    IF s # <<>> /\ s[Len(s)] \in Whitespace
    THEN RStrip(SubSeq(s, 1, Len(s) - 1))
    ELSE s

\* str.strip()
strip(s) == RStrip(LStrip(s))

RECURSIVE SubWords(_, _)
\* re.sub('(w1|w2|...)', '', s, flags=re.IGNORECASE): one pass from the left,
\* at each position the first alternative that matches is removed
SubWords(s, ws) ==
    IF s = <<>> THEN <<>>
    ELSE IF \E i \in 1..Len(ws) : StartsAt(lower(s), 1, ws[i])
    THEN LET i == CHOOSE k \in 1..Len(ws) :
                    /\ StartsAt(lower(s), 1, ws[k])
                    /\ \A j \in 1..(k - 1) : ~StartsAt(lower(s), 1, ws[j])
         IN  SubWords(SubSeq(s, Len(ws[i]) + 1, Len(s)), ws)
    ELSE <<Head(s)>> \o SubWords(Tail(s), ws)

Billion == <<"b","i","l","l","i","o","n">>

Million == <<"m","i","l","l","i","o","n">>

Thousand == <<"t","h","o","u","s","a","n","d">>

K == <<"k">>

\* the character class [\$€¥£,\s] of the last re.sub
CurrencySeparators == {"$", "€", "¥", "£", ","} \cup Whitespace

(***************************************************************************)
(* float(text): Python's float literal, without exponents and underscores  *)
(* (no input of the model holds 'e', 'E', '+' or '_').                     *)
(***************************************************************************)
RECURSIVE DigitsValue(_)
DigitsValue(s) ==
    IF s = <<>> THEN 0
    ELSE 10 * DigitsValue(SubSeq(s, 1, Len(s) - 1)) + DigitVal(s[Len(s)])

AllDigits(s) == \A i \in 1..Len(s) : IsDigit(s[i])

\* digits [. digits*]  or  . digits+
IsDecimal(s) ==
    \/ s # <<>> /\ AllDigits(s)
    \/ \E p \in 1..Len(s) :
          /\ s[p] = "."
          /\ AllDigits(SubSeq(s, 1, p - 1))
          /\ AllDigits(SubSeq(s, p + 1, Len(s)))
          /\ Len(s) > 1

RECURSIVE Significant(_, _, _)
\* the float sign * d * 10^e of a digit string d; trailing zeros move to e
Significant(sign, d, e) ==
    IF d # <<>> /\ d[Len(d)] = "0"
    THEN Significant(sign, SubSeq(d, 1, Len(d) - 1), e + 1)
    ELSE PyFloat(sign * DigitsValue(d), e)

DecimalValue(sign, s) ==
    IF AllDigits(s) THEN Significant(sign, s, 0)
    ELSE LET p == CHOOSE q \in 1..Len(s) : s[q] = "."
             frac == SubSeq(s, p + 1, Len(s))
         IN  Significant(sign, SubSeq(s, 1, p - 1) \o frac, -Len(frac))

\* float(s): a float, or the ValueError float raises
float(s) ==
    LET t    == strip(s)
        neg  == t # <<>> /\ Head(t) = "-"
        body == IF neg THEN Tail(t) ELSE t
        sign == IF neg THEN -1 ELSE 1
        word == lower(body)
    IN  IF word \in {<<"i","n","f">>, <<"i","n","f","i","n","i","t","y">>}
        THEN Inf(sign)
        ELSE IF word = <<"n","a","n">> THEN NaN
        ELSE IF IsDecimal(body) THEN DecimalValue(sign, body)
        ELSE Raised("ValueError")

Log10(mult) ==
    CASE mult = 1 -> 0
      [] mult = 1000 -> 3
      [] mult = 1000000 -> 6
      [] mult = 1000000000 -> 9

\* float * multiplier
Times(v, mult) ==
    IF v.t = "float" THEN PyFloat(v.m, v.e + Log10(mult)) ELSE v

RECURSIVE Pow10(_)
Pow10(n) == IF n = 0 THEN 1 ELSE 10 * Pow10(n - 1)

\* int(v) of a float: truncation toward zero; int(inf) and int(nan) raise
int(v) ==
    CASE v.t = "inf" -> Raised("OverflowError")
      [] v.t = "nan" -> Raised("ValueError")
      [] v.t = "float" /\ v.e >= 0 -> PyInt(v.m, v.e)
      [] v.t = "float" /\ v.e < 0 ->
            IF v.m >= 0 THEN PyInt(v.m \div Pow10(-v.e), 0)
            ELSE PyInt(-((-v.m) \div Pow10(-v.e)), 0)

(***************************************************************************)
(* str(value): the text of a Python value; repr of a float in the          *)
(* positional range 1e-4 <= |x| < 1e16.                                    *)
(***************************************************************************)
RECURSIVE DigitsOf(_)
DigitsOf(n) ==
    IF n < 10 THEN <<Digits[n + 1]>>
    ELSE DigitsOf(n \div 10) \o <<Digits[(n % 10) + 1]>>

Zeros(n) == [i \in 1..n |-> "0"]

Positional(m, e) ==
    LET d == DigitsOf(m)
    IN  IF e >= 0 THEN d \o Zeros(e) \o <<".", "0">>
        ELSE IF Len(d) > -e
        THEN SubSeq(d, 1, Len(d) + e) \o <<".">> \o SubSeq(d, Len(d) + e + 1, Len(d))
        ELSE <<"0", ".">> \o Zeros(-e - Len(d)) \o d

str(v) ==
    CASE v.t = "str" -> v.s
      [] v.t = "nan" -> <<"n","a","n">>
      [] v.t = "inf" -> IF v.m < 0 THEN <<"-","i","n","f">> ELSE <<"i","n","f">>
      [] v.t = "float" ->
            IF v.m < 0 THEN <<"-">> \o Positional(-v.m, v.e)
            ELSE Positional(v.m, v.e)
      [] v.t = "int" ->
            IF v.m < 0 THEN <<"-">> \o DigitsOf(-v.m) \o Zeros(v.e)
            ELSE DigitsOf(v.m) \o Zeros(v.e)

(***************************************************************************)
(* transform.py: the value normalizers.                                    *)
(***************************************************************************)
\* pd.isna(value)
isna(v) == v.t \in {"None", "nan"}

\* the early return of normalize_numeric_value and extract_numeric's twin
IsAbsentInput(v) ==
    \/ isna(v)
    \/ v.t = "str" /\ v.s = <<>>
    \/ v.t = "str" /\ v.s = <<"-">>

\* the multiplier the if/elif chain selects for the stripped text
SelectMultiplier(text) ==
    IF Contains(lower(text), Billion) THEN 1000000000
    ELSE IF Contains(lower(text), Million) THEN 1000000
    ELSE IF Contains(lower(text), Thousand) \/ Contains(lower(text), K) THEN 1000
    ELSE 1

\* the text left by the branch's re.sub and by the symbol-stripping re.sub
StripScale(text) ==
    LET m == SelectMultiplier(text)
        t == CASE m = 1000000000 -> SubWords(text, <<Billion>>)
               [] m = 1000000 -> SubWords(text, <<Million>>)
               [] m = 1000 -> SubWords(text, <<Thousand, K>>)
               [] m = 1 -> text
    IN  SelectSeq(t, LAMBDA c : c \notin CurrencySeparators)

normalize_numeric_value(v) ==
    IF IsAbsentInput(v) THEN None
    ELSE LET text == strip(str(v))
             f    == float(StripScale(text))
         IN  IF f.t = "ValueError" THEN None
             ELSE Times(f, SelectMultiplier(text))

normalize_equipment_count(v) ==
    LET n == normalize_numeric_value(v)
    IN  IF n # None THEN int(n) ELSE None

(***************************************************************************)
(* transform.py: extract_numeric and the named normalizers.                *)
(***************************************************************************)
IsNumChar(c) == IsDigit(c) \/ c = "."

RECURSIVE RunOf(_)
\* the longest prefix of s made of digits and points
RunOf(s) ==
    IF s # <<>> /\ IsNumChar(Head(s)) THEN <<Head(s)>> \o RunOf(Tail(s)) ELSE <<>>

RECURSIVE FirstRun(_)
\* re.search(r'[\d.]+', s): the first run of digits and points, <<>> if none
FirstRun(s) ==
    IF s = <<>> THEN <<>>
    ELSE IF IsNumChar(Head(s)) THEN RunOf(s)
    ELSE FirstRun(Tail(s))

extract_numeric(v) ==
    IF isna(v) \/ (v.t = "str" /\ v.s = <<>>) THEN None
    ELSE LET run == FirstRun(str(v))
         IN  IF run = <<>> THEN None
             ELSE IF float(run).t = "ValueError" THEN None
             ELSE float(run)

normalize_personnel_value(v) == normalize_numeric_value(v)

normalize_budget_value(v) == normalize_numeric_value(v)

(***************************************************************************)
(* transform.py: identify_metric_columns.  A table is a record of its      *)
(* column names and its rows, each row the cells in column order.          *)
(***************************************************************************)
equipment_keywords ==
    << <<"a","i","r","c","r","a","f","t">>,
       <<"t","a","n","k">>,
       <<"h","e","l","i","c","o","p","t","e","r">>,
       <<"s","u","b","m","a","r","i","n","e">>,
       <<"c","a","r","r","i","e","r">>,
       <<"v","e","s","s","e","l">>,
       <<"s","h","i","p">>,
       <<"a","r","t","i","l","l","e","r","y">>,
       <<"l","a","u","n","c","h","e","r">> >>

personnel_keywords ==
    << <<"p","e","r","s","o","n","n","e","l">>,
       <<"a","c","t","i","v","e">>,
       <<"r","e","s","e","r","v","e">>,
       <<"m","a","n","p","o","w","e","r">>,
       <<"s","o","l","d","i","e","r">>,
       <<"t","r","o","o","p">> >>

financial_keywords ==
    << <<"b","u","d","g","e","t">>,
       <<"g","d","p">>,
       <<"s","p","e","n","d","i","n","g">>,
       <<"e","x","p","e","n","d","i","t","u","r","e">>,
       <<"r","e","v","e","n","u","e">>,
       <<"i","n","c","o","m","e">> >>

AnyKeyword(col_lower, keywords) ==
    \E i \in 1..Len(keywords) : Contains(col_lower, keywords[i])

EmptyTypes ==
    [equipment |-> <<>>, personnel |-> <<>>, financial |-> <<>>, other |-> <<>>]

RECURSIVE ClassifyColumns_PersonnelFirst(_, _)
\* mutant: the personnel keywords are tried before the equipment keywords
ClassifyColumns_PersonnelFirst(cols, acc) ==
    IF cols = <<>> THEN acc
    ELSE LET col == Head(cols)
             col_lower == lower(col)
         IN  ClassifyColumns_PersonnelFirst(Tail(cols),
                IF AnyKeyword(col_lower, personnel_keywords)
                THEN [acc EXCEPT !.personnel = Append(@, col)]
                ELSE IF AnyKeyword(col_lower, equipment_keywords)
                THEN [acc EXCEPT !.equipment = Append(@, col)]
                ELSE IF AnyKeyword(col_lower, financial_keywords)
                THEN [acc EXCEPT !.financial = Append(@, col)]
                ELSE [acc EXCEPT !.other = Append(@, col)])

RECURSIVE ClassifyColumns(_, _)
\* the loop over df.columns, appending each column to one list
ClassifyColumns(cols, acc) ==
    IF cols = <<>> THEN acc
    ELSE LET col == Head(cols)
             col_lower == lower(col)
         IN  ClassifyColumns(Tail(cols),
                IF AnyKeyword(col_lower, equipment_keywords)
                THEN [acc EXCEPT !.equipment = Append(@, col)]
                ELSE IF AnyKeyword(col_lower, personnel_keywords)
                THEN [acc EXCEPT !.personnel = Append(@, col)]
                ELSE IF AnyKeyword(col_lower, financial_keywords)
                THEN [acc EXCEPT !.financial = Append(@, col)]
                ELSE [acc EXCEPT !.other = Append(@, col)])

identify_metric_columns(d) == ClassifyColumns(d.columns, EmptyTypes)

(***************************************************************************)
(* transform.py: clean_data.                                               *)
(***************************************************************************)
\* 'Country'
COUNTRY ==
    <<"C","o","u","n","t","r","y">>

\* 'country_name'
COUNTRY_NAME ==
    <<"c","o","u","n","t","r","y","_","n","a","m","e">>

\* 'url'
URL ==
    <<"u","r","l">>

\* 'Total Aircraft'
TOTAL_AIRCRAFT ==
    <<"T","o","t","a","l"," ","A","i","r","c","r","a","f","t">>

\* 'Active Personnel'
ACTIVE_PERSONNEL ==
    <<"A","c","t","i","v","e"," ","P","e","r","s","o","n","n","e","l">>

\* 'Defense Budget (USD)'
DEFENSE_BUDGET ==
    <<"D","e","f","e","n","s","e"," ","B","u","d","g","e","t"," ","(","U","S",
    "D",")">>

\* 'Land Area (sq km)'
LAND_AREA ==
    <<"L","a","n","d"," ","A","r","e","a"," ","(","s","q"," ","k","m",")">>

\* 'Reserve Budget'
RESERVE_BUDGET ==
    <<"R","e","s","e","r","v","e"," ","B","u","d","g","e","t">>

\* 'Active Aircraft Budget'
ACTIVE_AIRCRAFT_BUDGET ==
    <<"A","c","t","i","v","e"," ","A","i","r","c","r","a","f","t"," ","B","u",
    "d","g","e","t">>

HasColumn(d, col) == \E j \in 1..Len(d.columns) : d.columns[j] = col

\* a sequence given as a function, as the tuple it is
AsTuple(f) == f \o <<>>

\* df[col]: the cells of a column, in row order
Column(d, col) ==
    LET j == CHOOSE k \in 1..Len(d.columns) : d.columns[k] = col
    IN  AsTuple([r \in 1..Len(d.rows) |-> d.rows[r][j]])

\* df[col] = cells (the table and the cells are evaluated once)
SetColumn(table, col, column) ==
    CHOOSE out \in
        { [d EXCEPT !.rows =
            AsTuple([r \in 1..Len(d.rows) |->
                AsTuple([j \in 1..Len(d.columns) |->
                    IF d.columns[j] = col THEN cells[r] ELSE d.rows[r][j]])])] :
          d \in {table}, cells \in {column} } : TRUE

\* mutant: equipment columns go through the floating normalizer
Normalizer_AllFloat(kind, v) ==
    CASE kind = "equipment" -> normalize_numeric_value(v)
      [] kind = "personnel" -> normalize_personnel_value(v)
      [] kind = "financial" -> normalize_budget_value(v)
      [] kind = "other" -> extract_numeric(v)

\* the function clean_data applies to the columns of one category
Normalizer(kind, v) ==
    CASE kind = "equipment" -> normalize_equipment_count(v)
      [] kind = "personnel" -> normalize_personnel_value(v)
      [] kind = "financial" -> normalize_budget_value(v)
      [] kind = "other" -> extract_numeric(v)

\* mutant: the rows whose normalized cell is absent are dropped (dropna)
ApplyColumn_DropAbsent(d, col, kind) ==
    LET j == CHOOSE k \in 1..Len(d.columns) : d.columns[k] = col
        out == SetColumn(d, col,
                 AsTuple([r \in 1..Len(d.rows) |->
                            Normalizer(kind, Column(d, col)[r])]))
    IN  [out EXCEPT !.rows = SelectSeq(out.rows, LAMBDA row : row[j] # None)]

\* df_clean[col] = df_clean[col].apply(normalizer)
ApplyColumn(d, col, kind) ==
    SetColumn(d, col,
        AsTuple([r \in 1..Len(d.rows) |-> Normalizer(kind, Column(d, col)[r])]))

\* mutant: only the url column is left alone
SkippedColumns_UrlOnly == {URL}

\* the columns the 'other' loop leaves alone
SkippedColumns == {COUNTRY_NAME, URL, COUNTRY}

RECURSIVE CleanColumns(_, _, _)
\* one of the four loops of clean_data over the columns of a category
CleanColumns(table, cols, kind) ==
    CHOOSE out \in
        { IF cols = <<>> THEN d
          ELSE IF kind = "other" /\ Head(cols) \in SkippedColumns
          THEN CleanColumns(d, Tail(cols), kind)
          ELSE IF HasColumn(d, Head(cols))
          THEN CleanColumns(ApplyColumn(d, Head(cols), kind), Tail(cols), kind)
          ELSE CleanColumns(d, Tail(cols), kind) : d \in {table} } : TRUE

\* the table clean_data builds; a cell holds the exception when its
\* normalizer raised
clean_data(d) ==
    LET by_type == identify_metric_columns(d)
        d1 == CleanColumns(d, by_type.equipment, "equipment")
        d2 == CleanColumns(d1, by_type.personnel, "personnel")
        d3 == CleanColumns(d2, by_type.financial, "financial")
        d4 == CleanColumns(d3, by_type.other, "other")
    IN  IF HasColumn(d, COUNTRY)
        THEN SetColumn(d4, COUNTRY, Column(d, COUNTRY))
        ELSE d4

\* an exception raised inside Series.apply leaves clean_data
Raises(d) ==
    \E r \in 1..Len(d.rows) : \E j \in 1..Len(d.columns) :
        d.rows[r][j].t \in {"OverflowError", "ValueError"}

(***************************************************************************)
(* scraper.py: extract_metrics_from_page.  The patterns are matched as     *)
(* re.search matches them: at the leftmost position where the whole        *)
(* pattern matches, greedy runs taken whole, '.*?' as short as possible.   *)
(* 'low' is the lowered text, used where the pattern ignores case.         *)
(***************************************************************************)
IsSpace(c) == c \in Whitespace

\* [\d,]
IsValueChar(c) == IsDigit(c) \/ c = ","

\* '.' (no DOTALL): anything but a newline
IsDot(c) == c # "\n"

\* the character classes of the patterns
InClass(class, c) ==
    CASE class = "space" -> IsSpace(c)
      [] class = "digit" -> IsDigit(c)
      [] class = "value" -> IsValueChar(c)
      [] class = "dot" -> IsDot(c)

\* the position after the longest run of characters of a class, from i
RunEnd(s, i, class) ==
    IF i > Len(s) THEN i
    ELSE CHOOSE j \in i..(Len(s) + 1) :
            /\ \A k \in i..(j - 1) : InClass(class, s[k])
            /\ (j = Len(s) + 1 \/ ~InClass(class, s[j]))

\* \s*([\d,]+) at position i: group 1, <<>> when there is no match
ValueAt(s, i) ==
    LET a == RunEnd(s, i, "space")
    IN  SubSeq(s, a, RunEnd(s, a, "value") - 1)

\* \s*\$?([\d,]+) at position i
DollarValueAt(s, i) ==
    LET a == RunEnd(s, i, "space")
        b == IF a <= Len(s) /\ s[a] = "$" THEN a + 1 ELSE a
    IN  SubSeq(s, b, RunEnd(s, b, "value") - 1)

BBL == <<"b", "b", "l">>

\* \s*([\d,]+)\s*bbl at position i
BblValueAt(s, low, i) ==
    LET a == RunEnd(s, i, "space")
        b == RunEnd(s, a, "value")
    IN  IF b > a /\ StartsAt(low, RunEnd(s, b, "space"), BBL)
        THEN SubSeq(s, a, b - 1)
        ELSE <<>>

STOCK == <<"s", "t", "o", "c", "k", ":">>

\* .*?Stock:\s*([\d,]+) at position i
StockValueAt(s, low, i) ==
    LET qs == { q \in i..RunEnd(s, i, "dot") :
                  /\ StartsAt(low, q, STOCK)
                  /\ ValueAt(s, q + Len(STOCK)) # <<>> }
    IN  IF qs = {} THEN <<>>
        ELSE ValueAt(s, (CHOOSE q \in qs : \A r \in qs : q <= r) + Len(STOCK))

\* what follows the label of a catalog pattern, by the pattern's shape
GroupAt(shape, s, low, i) ==
    CASE shape = "value" -> ValueAt(s, i)
      [] shape = "stock" -> StockValueAt(s, low, i)
      [] shape = "dollar" -> DollarValueAt(s, i)
      [] shape = "bbl" -> BblValueAt(s, low, i)

\* re.search(pattern, text_content, re.IGNORECASE).group(1); <<>> when
\* there is no match (group 1 of a match is never empty)
Search(rule, s, low) ==
    LET label == lower(rule.label)
        ps == { p \in 1..Len(s) :
                  /\ StartsAt(low, p, label)
                  /\ GroupAt(rule.shape, s, low, p + Len(label)) # <<>> }
    IN  IF ps = {} THEN <<>>
        ELSE GroupAt(rule.shape, s, low,
                     (CHOOSE p \in ps : \A r \in ps : p <= r) + Len(label))

\* a replace that leaves the separators in (mutation)
RemoveCommas_Keep(group) == group

\* match.group(1).replace(',', '')
RemoveCommas(group) == SelectSeq(group, LAMBDA c : c # ",")

\* a dict is the sequence of its items in insertion order
HasKey(d, k) == \E i \in 1..Len(d) : d[i].name = k

\* d[k]
Get(d, k) == d[CHOOSE i \in 1..Len(d) : d[i].name = k].value

\* d[k] = v
DictSet(d, k, v) ==
    IF HasKey(d, k)
    THEN [i \in 1..Len(d) |->
             IF d[i].name = k THEN [name |-> k, value |-> v] ELSE d[i]]
    ELSE Append(d, [name |-> k, value |-> v])

\* the catalog: for each pattern its literal label, the shape of what
\* follows the label, and the metric name
label_value_patterns ==
    <<
    \* r'Total Population:\s*([\d,]+)', 'Total Population'
    [label |-> <<"T","o","t","a","l"," ","P","o","p","u","l","a","t","i","o",
               "n",":">>,
     shape |-> "value",
     name |-> <<"T","o","t","a","l"," ","P","o","p","u","l","a","t","i","o",
              "n">>],
    \* r'Available Manpower:\s*([\d,]+)', 'Available Manpower'
    [label |-> <<"A","v","a","i","l","a","b","l","e"," ","M","a","n","p","o",
               "w","e","r",":">>,
     shape |-> "value",
     name |-> <<"A","v","a","i","l","a","b","l","e"," ","M","a","n","p","o",
              "w","e","r">>],
    \* r'Fit-for-Service:\s*([\d,]+)', 'Fit for Service'
    [label |-> <<"F","i","t","-","f","o","r","-","S","e","r","v","i","c","e",
               ":">>,
     shape |-> "value",
     name |-> <<"F","i","t"," ","f","o","r"," ","S","e","r","v","i","c","e">>],
    \* r'Active Personnel:\s*([\d,]+)', 'Active Personnel'
    [label |-> <<"A","c","t","i","v","e"," ","P","e","r","s","o","n","n","e",
               "l",":">>,
     shape |-> "value",
     name |-> <<"A","c","t","i","v","e"," ","P","e","r","s","o","n","n","e",
              "l">>],
    \* r'Reserve Personnel:\s*([\d,]+)', 'Reserve Personnel'
    [label |-> <<"R","e","s","e","r","v","e"," ","P","e","r","s","o","n","n",
               "e","l",":">>,
     shape |-> "value",
     name |-> <<"R","e","s","e","r","v","e"," ","P","e","r","s","o","n","n",
              "e","l">>],
    \* r'Aircraft Total.*?Stock:\s*([\d,]+)', 'Total Aircraft'
    [label |-> <<"A","i","r","c","r","a","f","t"," ","T","o","t","a","l">>,
     shape |-> "stock",
     name |-> <<"T","o","t","a","l"," ","A","i","r","c","r","a","f","t">>],
    \* r'Fighters.*?Stock:\s*([\d,]+)', 'Fighter Aircraft'
    [label |-> <<"F","i","g","h","t","e","r","s">>,
     shape |-> "stock",
     name |-> <<"F","i","g","h","t","e","r"," ","A","i","r","c","r","a","f",
              "t">>],
    \* r'Attack Types.*?Stock:\s*([\d,]+)', 'Attack Aircraft'
    [label |-> <<"A","t","t","a","c","k"," ","T","y","p","e","s">>,
     shape |-> "stock",
     name |-> <<"A","t","t","a","c","k"," ","A","i","r","c","r","a","f","t">>],
    \* r'Helicopters.*?Stock:\s*([\d,]+)', 'Helicopters'
    [label |-> <<"H","e","l","i","c","o","p","t","e","r","s">>,
     shape |-> "stock",
     name |-> <<"H","e","l","i","c","o","p","t","e","r","s">>],
    \* r'Attack Helicopters.*?Stock:\s*([\d,]+)', 'Attack Helicopters'
    [label |-> <<"A","t","t","a","c","k"," ","H","e","l","i","c","o","p","t",
               "e","r","s">>,
     shape |-> "stock",
     name |-> <<"A","t","t","a","c","k"," ","H","e","l","i","c","o","p","t",
              "e","r","s">>],
    \* r'Transports.*?Stock:\s*([\d,]+)', 'Transport Aircraft'
    [label |-> <<"T","r","a","n","s","p","o","r","t","s">>,
     shape |-> "stock",
     name |-> <<"T","r","a","n","s","p","o","r","t"," ","A","i","r","c","r",
              "a","f","t">>],
    \* r'Trainers.*?Stock:\s*([\d,]+)', 'Trainer Aircraft'
    [label |-> <<"T","r","a","i","n","e","r","s">>,
     shape |-> "stock",
     name |-> <<"T","r","a","i","n","e","r"," ","A","i","r","c","r","a","f",
              "t">>],
    \* r'Tanker Fleet.*?Stock:\s*([\d,]+)', 'Tanker Aircraft'
    [label |-> <<"T","a","n","k","e","r"," ","F","l","e","e","t">>,
     shape |-> "stock",
     name |-> <<"T","a","n","k","e","r"," ","A","i","r","c","r","a","f","t">>],
    \* r'Special-Mission.*?Stock:\s*([\d,]+)', 'Special Mission Aircraft'
    [label |-> <<"S","p","e","c","i","a","l","-","M","i","s","s","i","o",
               "n">>,
     shape |-> "stock",
     name |-> <<"S","p","e","c","i","a","l"," ","M","i","s","s","i","o","n",
              " ","A","i","r","c","r","a","f","t">>],
    \* r'Tanks.*?Stock:\s*([\d,]+)', 'Tanks'
    [label |-> <<"T","a","n","k","s">>,
     shape |-> "stock",
     name |-> <<"T","a","n","k","s">>],
    \* r'Vehicles.*?Stock:\s*([\d,]+)', 'Armored Vehicles'
    [label |-> <<"V","e","h","i","c","l","e","s">>,
     shape |-> "stock",
     name |-> <<"A","r","m","o","r","e","d"," ","V","e","h","i","c","l","e",
              "s">>],
    \* r'Self-Propelled.*?Stock:\s*([\d,]+)', 'Self-Propelled Artillery'
    [label |-> <<"S","e","l","f","-","P","r","o","p","e","l","l","e","d">>,
     shape |-> "stock",
     name |-> <<"S","e","l","f","-","P","r","o","p","e","l","l","e","d"," ",
              "A","r","t","i","l","l","e","r","y">>],
    \* r'Towed Artillery.*?Stock:\s*([\d,]+)', 'Towed Artillery'
    [label |-> <<"T","o","w","e","d"," ","A","r","t","i","l","l","e","r",
               "y">>,
     shape |-> "stock",
     name |-> <<"T","o","w","e","d"," ","A","r","t","i","l","l","e","r","y">>],
    \* r'MLRS.*?Stock:\s*([\d,]+)', 'Rocket Projectors'
    [label |-> <<"M","L","R","S">>,
     shape |-> "stock",
     name |-> <<"R","o","c","k","e","t"," ","P","r","o","j","e","c","t","o",
              "r","s">>],
    \* r'Total Assets:\s*([\d,]+)', 'Total Naval Assets'
    [label |-> <<"T","o","t","a","l"," ","A","s","s","e","t","s",":">>,
     shape |-> "value",
     name |-> <<"T","o","t","a","l"," ","N","a","v","a","l"," ","A","s","s",
              "e","t","s">>],
    \* r'Aircraft Carriers:\s*([\d,]+)', 'Aircraft Carriers'
    [label |-> <<"A","i","r","c","r","a","f","t"," ","C","a","r","r","i","e",
               "r","s",":">>,
     shape |-> "value",
     name |-> <<"A","i","r","c","r","a","f","t"," ","C","a","r","r","i","e",
              "r","s">>],
    \* r'Helicopter Carriers:\s*([\d,]+)', 'Helicopter Carriers'
    [label |-> <<"H","e","l","i","c","o","p","t","e","r"," ","C","a","r","r",
               "i","e","r","s",":">>,
     shape |-> "value",
     name |-> <<"H","e","l","i","c","o","p","t","e","r"," ","C","a","r","r",
              "i","e","r","s">>],
    \* r'Destroyers:\s*([\d,]+)', 'Destroyers'
    [label |-> <<"D","e","s","t","r","o","y","e","r","s",":">>,
     shape |-> "value",
     name |-> <<"D","e","s","t","r","o","y","e","r","s">>],
    \* r'Frigates:\s*([\d,]+)', 'Frigates'
    [label |-> <<"F","r","i","g","a","t","e","s",":">>,
     shape |-> "value",
     name |-> <<"F","r","i","g","a","t","e","s">>],
    \* r'Corvettes:\s*([\d,]+)', 'Corvettes'
    [label |-> <<"C","o","r","v","e","t","t","e","s",":">>,
     shape |-> "value",
     name |-> <<"C","o","r","v","e","t","t","e","s">>],
    \* r'Submarines:\s*([\d,]+)', 'Submarines'
    [label |-> <<"S","u","b","m","a","r","i","n","e","s",":">>,
     shape |-> "value",
     name |-> <<"S","u","b","m","a","r","i","n","e","s">>],
    \* r'Offshore Patrol:\s*([\d,]+)', 'Patrol Vessels'
    [label |-> <<"O","f","f","s","h","o","r","e"," ","P","a","t","r","o","l",
               ":">>,
     shape |-> "value",
     name |-> <<"P","a","t","r","o","l"," ","V","e","s","s","e","l","s">>],
    \* r'Mine Warfare:\s*([\d,]+)', 'Mine Warfare'
    [label |-> <<"M","i","n","e"," ","W","a","r","f","a","r","e",":">>,
     shape |-> "value",
     name |-> <<"M","i","n","e"," ","W","a","r","f","a","r","e">>],
    \* r'Defense Budget:\s*\$?([\d,]+)', 'Defense Budget (USD)'
    [label |-> <<"D","e","f","e","n","s","e"," ","B","u","d","g","e","t",
               ":">>,
     shape |-> "dollar",
     name |-> <<"D","e","f","e","n","s","e"," ","B","u","d","g","e","t"," ",
              "(","U","S","D",")">>],
    \* r'Purchasing Power Parity:\s*\$?([\d,]+)', 'Purchasing Power Parity (USD)'
    [label |-> <<"P","u","r","c","h","a","s","i","n","g"," ","P","o","w","e",
               "r"," ","P","a","r","i","t","y",":">>,
     shape |-> "dollar",
     name |-> <<"P","u","r","c","h","a","s","i","n","g"," ","P","o","w","e",
              "r"," ","P","a","r","i","t","y"," ","(","U","S","D",")">>],
    \* r'Foreign Exchange/Gold:\s*\$?([\d,]+)', 'Foreign Exchange Reserves (USD)'
    [label |-> <<"F","o","r","e","i","g","n"," ","E","x","c","h","a","n","g",
               "e","/","G","o","l","d",":">>,
     shape |-> "dollar",
     name |-> <<"F","o","r","e","i","g","n"," ","E","x","c","h","a","n","g",
              "e"," ","R","e","s","e","r","v","e","s"," ","(","U","S","D",
              ")">>],
    \* r'External Debt:\s*\$?([\d,]+)', 'External Debt (USD)'
    [label |-> <<"E","x","t","e","r","n","a","l"," ","D","e","b","t",":">>,
     shape |-> "dollar",
     name |-> <<"E","x","t","e","r","n","a","l"," ","D","e","b","t"," ","(",
              "U","S","D",")">>],
    \* r'Square Land Area:\s*([\d,]+)', 'Land Area (sq km)'
    [label |-> <<"S","q","u","a","r","e"," ","L","a","n","d"," ","A","r","e",
               "a",":">>,
     shape |-> "value",
     name |-> <<"L","a","n","d"," ","A","r","e","a"," ","(","s","q"," ","k",
              "m",")">>],
    \* r'Coastline Coverage:\s*([\d,]+)', 'Coastline (km)'
    [label |-> <<"C","o","a","s","t","l","i","n","e"," ","C","o","v","e","r",
               "a","g","e",":">>,
     shape |-> "value",
     name |-> <<"C","o","a","s","t","l","i","n","e"," ","(","k","m",")">>],
    \* r'Shared Borders:\s*([\d,]+)', 'Shared Borders (km)'
    [label |-> <<"S","h","a","r","e","d"," ","B","o","r","d","e","r","s",
               ":">>,
     shape |-> "value",
     name |-> <<"S","h","a","r","e","d"," ","B","o","r","d","e","r","s"," ",
              "(","k","m",")">>],
    \* r'Waterways \(usable\):\s*([\d,]+)', 'Waterways (km)'
    [label |-> <<"W","a","t","e","r","w","a","y","s"," ","(","u","s","a","b",
               "l","e",")",":">>,
     shape |-> "value",
     name |-> <<"W","a","t","e","r","w","a","y","s"," ","(","k","m",")">>],
    \* r'Oil Production:\s*([\d,]+)\s*bbl', 'Oil Production (bbl/day)'
    [label |-> <<"O","i","l"," ","P","r","o","d","u","c","t","i","o","n",
               ":">>,
     shape |-> "bbl",
     name |-> <<"O","i","l"," ","P","r","o","d","u","c","t","i","o","n"," ",
              "(","b","b","l","/","d","a","y",")">>],
    \* r'Oil Consumption:\s*([\d,]+)\s*bbl', 'Oil Consumption (bbl/day)'
    [label |-> <<"O","i","l"," ","C","o","n","s","u","m","p","t","i","o","n",
               ":">>,
     shape |-> "bbl",
     name |-> <<"O","i","l"," ","C","o","n","s","u","m","p","t","i","o","n",
              " ","(","b","b","l","/","d","a","y",")">>],
    \* r'Oil Proven Reserves:\s*([\d,]+)', 'Proven Oil Reserves (bbl)'
    [label |-> <<"O","i","l"," ","P","r","o","v","e","n"," ","R","e","s","e",
               "r","v","e","s",":">>,
     shape |-> "value",
     name |-> <<"P","r","o","v","e","n"," ","O","i","l"," ","R","e","s","e",
              "r","v","e","s"," ","(","b","b","l",")">>],
    \* r'Natural Gas Production:\s*([\d,]+)', 'Natural Gas Production'
    [label |-> <<"N","a","t","u","r","a","l"," ","G","a","s"," ","P","r","o",
               "d","u","c","t","i","o","n",":">>,
     shape |-> "value",
     name |-> <<"N","a","t","u","r","a","l"," ","G","a","s"," ","P","r","o",
              "d","u","c","t","i","o","n">>],
    \* r'Labor Force:\s*([\d,]+)', 'Labor Force'
    [label |-> <<"L","a","b","o","r"," ","F","o","r","c","e",":">>,
     shape |-> "value",
     name |-> <<"L","a","b","o","r"," ","F","o","r","c","e">>],
    \* r'Merchant Marine Fleet:\s*([\d,]+)', 'Merchant Marine Fleet'
    [label |-> <<"M","e","r","c","h","a","n","t"," ","M","a","r","i","n","e",
               " ","F","l","e","e","t",":">>,
     shape |-> "value",
     name |-> <<"M","e","r","c","h","a","n","t"," ","M","a","r","i","n","e",
              " ","F","l","e","e","t">>],
    \* r'Ports / Trade Terminals:\s*([\d,]+)', 'Ports'
    [label |-> <<"P","o","r","t","s"," ","/"," ","T","r","a","d","e"," ","T",
               "e","r","m","i","n","a","l","s",":">>,
     shape |-> "value",
     name |-> <<"P","o","r","t","s">>],
    \* r'Airports:\s*([\d,]+)', 'Airports'
    [label |-> <<"A","i","r","p","o","r","t","s",":">>,
     shape |-> "value",
     name |-> <<"A","i","r","p","o","r","t","s">>],
    \* r'Roadway Coverage:\s*([\d,]+)', 'Roadway Coverage (km)'
    [label |-> <<"R","o","a","d","w","a","y"," ","C","o","v","e","r","a","g",
               "e",":">>,
     shape |-> "value",
     name |-> <<"R","o","a","d","w","a","y"," ","C","o","v","e","r","a","g",
              "e"," ","(","k","m",")">>],
    \* r'Railway Coverage:\s*([\d,]+)', 'Railway Coverage (km)'
    [label |-> <<"R","a","i","l","w","a","y"," ","C","o","v","e","r","a","g",
               "e",":">>,
     shape |-> "value",
     name |-> <<"R","a","i","l","w","a","y"," ","C","o","v","e","r","a","g",
              "e"," ","(","k","m",")">>]
    >>


\* a stored value that passes 'if value and value.isdigit()' (mutation)
Keeps_All(v) == TRUE

\* if value and value.isdigit()
Keeps(v) == v # <<>> /\ AllDigits(v)

\* mutant: the loop stops at the first rule that yields a metric
ApplyPattern_FirstWins(rule, s, low, dict) ==
    CHOOSE out \in
        { IF d # <<>> \/ group = <<>> THEN d
          ELSE IF Keeps(RemoveCommas(group))
          THEN DictSet(d, rule.name, RemoveCommas(group))
          ELSE d : group \in {Search(rule, s, low)}, d \in {dict} } : TRUE

\* one turn of the loop over the catalog (group and d are evaluated once)
ApplyPattern(rule, s, low, dict) ==
    CHOOSE out \in
        { IF group = <<>> THEN d
          ELSE IF Keeps(RemoveCommas(group))
          THEN DictSet(d, rule.name, RemoveCommas(group))
          ELSE d : group \in {Search(rule, s, low)}, d \in {dict} } : TRUE

RECURSIVE ApplyPatterns(_, _, _, _)
\* the loop over the catalog, from rule i on
ApplyPatterns(i, s, low, dict) ==
    IF i > Len(label_value_patterns) THEN dict
    ELSE CHOOSE out \in
            { ApplyPatterns(i + 1, s, low, d) :
                d \in {ApplyPattern(label_value_patterns[i], s, low, dict)} } :
            TRUE

RANKED == <<"r","a","n","k","e","d">>

OF == <<"o", "f">>

\* ranked\s+(\d+)\s+of\s+(\d+) at position p: <<group 1, group 2>>
RankAt(s, low, p) ==
    LET a == p + Len(RANKED)
        b == RunEnd(s, a, "space")
        c == RunEnd(s, b, "digit")
        d == RunEnd(s, c, "space")
        e == d + Len(OF)
        f == RunEnd(s, e, "space")
        g == RunEnd(s, f, "digit")
    IN  IF /\ StartsAt(low, p, RANKED) /\ b > a /\ c > b /\ d > c
           /\ StartsAt(low, d, OF) /\ f > e /\ g > f
        THEN <<SubSeq(s, b, c - 1), SubSeq(s, f, g - 1)>>
        ELSE <<>>

PWRINDX == <<"P","w","r","I","n","d","x">>

SCORE == <<"s","c","o","r","e">>

\* PwrIndx\*?\s*(?:score\s+(?:of\s+)?)?(\d+\.\d+) at position p: group 1
PwrAt(s, p) ==
    LET a == p + Len(PWRINDX)
        b == IF a <= Len(s) /\ s[a] = "*" THEN a + 1 ELSE a
        c == RunEnd(s, b, "space")
        d == RunEnd(s, c + Len(SCORE), "space")
        e == RunEnd(s, d + Len(OF), "space")
        f == IF StartsAt(s, c, SCORE) /\ d > c + Len(SCORE)
             THEN IF StartsAt(s, d, OF) /\ e > d + Len(OF) THEN e ELSE d
             ELSE c
        g == RunEnd(s, f, "digit")
        h == RunEnd(s, g + 1, "digit")
    IN  IF /\ StartsAt(s, p, PWRINDX) /\ g > f
           /\ g <= Len(s) /\ s[g] = "." /\ h > g + 1
        THEN SubSeq(s, f, h - 1)
        ELSE <<>>

GFP_RANK == <<"G","F","P"," ","R","a","n","k">>

TOTAL_COUNTRIES_RANKED ==
    <<"T","o","t","a","l"," ","C","o","u","n","t","r","i","e","s"," ","R","a",
    "n","k","e","d">>

POWER_INDEX == <<"P","o","w","e","r"," ","I","n","d","e","x">>

\* the leftmost position where the rank pattern matches, 0 if none
FirstRank(s, low) ==
    IF \E p \in 1..Len(s) : RankAt(s, low, p) # <<>>
    THEN CHOOSE p \in 1..Len(s) :
            /\ RankAt(s, low, p) # <<>>
            /\ \A r \in 1..(p - 1) : RankAt(s, low, r) = <<>>
    ELSE 0

\* the leftmost position where the power index pattern matches, 0 if none
FirstPwr(s) ==
    IF \E p \in 1..Len(s) : PwrAt(s, p) # <<>>
    THEN CHOOSE p \in 1..Len(s) :
            PwrAt(s, p) # <<>> /\ \A r \in 1..(p - 1) : PwrAt(s, r) = <<>>
    ELSE 0

\* the special extractions: rank and power index
SpecialExtractions(s, low, dict) ==
    LET rp == FirstRank(s, low)
        pp == FirstPwr(s)
        d1 == IF rp = 0 THEN dict
              ELSE DictSet(DictSet(dict, GFP_RANK, RankAt(s, low, rp)[1]),
                           TOTAL_COUNTRIES_RANKED, RankAt(s, low, rp)[2])
    IN  IF pp = 0 THEN d1 ELSE DictSet(d1, POWER_INDEX, PwrAt(s, pp))

\* the dict extract_metrics_from_page returns for a page text
extract_metrics_from_page(text) ==
    CHOOSE out \in
        { SpecialExtractions(text, low, d) :
            low \in {lower(text)},
            d \in {ApplyPatterns(1, text, lower(text), <<>>)} } : TRUE

(***************************************************************************)
(* scraper.py: extract_country_slug and extract_country_name.  A tag of    *)
(* the page is a record (present, text); an Optional[str] is a sequence of *)
(* at most one text.  URLs start with 'http://' and carry no '%' escapes.  *)
(***************************************************************************)
LowerSet == {Lower[i] : i \in 1..26}

UpperOf == [c \in LowerSet |-> Upper[CHOOSE i \in 1..26 : Lower[i] = c]]

UpperChar(c) == IF c \in LowerSet THEN UpperOf[c] ELSE c

IsLetter(c) == c \in UpperSet \cup LowerSet

\* str.title(): a letter after a letter is lowered, any other letter raised
title(s) ==
    [i \in 1..Len(s) |->
        IF ~IsLetter(s[i]) THEN s[i]
        ELSE IF i > 1 /\ IsLetter(s[i - 1]) THEN LowerChar(s[i])
        ELSE UpperChar(s[i])] \o <<>>

\* s.replace(a, b) for one-character a and b
replace(s, a, b) == [i \in 1..Len(s) |-> IF s[i] = a THEN b ELSE s[i]] \o <<>>

\* the leftmost position >= from of character c in s, Len(s) + 1 if none
Find(s, c, from) ==
    IF \E i \in from..Len(s) : s[i] = c
    THEN CHOOSE i \in from..Len(s) :
            s[i] = c /\ \A k \in from..(i - 1) : s[k] # c
    ELSE Len(s) + 1

HTTP == <<"h","t","t","p",":","/","/">>

\* urlparse(url).netloc: from after '//' to the first of '/', '?', '#'
Netloc(u) ==
    LET a == Len(HTTP) + 1
        e == CHOOSE j \in a..(Len(u) + 1) :
                /\ \A k \in a..(j - 1) : u[k] \notin {"/", "?", "#"}
                /\ (j = Len(u) + 1 \/ u[j] \in {"/", "?", "#"})
    IN  SubSeq(u, a, e - 1)

\* urlparse raises ValueError('Invalid IPv6 URL') on an unpaired bracket
InvalidIPv6(u) ==
    LET n == Netloc(u)
    IN  (Find(n, "[", 1) <= Len(n)) # (Find(n, "]", 1) <= Len(n))

\* urlparse(url).query: between the first '?' and the first '#'
Query(u) ==
    LET base == SubSeq(u, 1, Find(u, "#", 1) - 1)
    IN  SubSeq(base, Find(base, "?", 1) + 1, Len(base))

RECURSIVE Split(_, _)
\* s.split(c)
Split(s, c) ==
    IF Find(s, c, 1) > Len(s) THEN <<s>>
    ELSE <<SubSeq(s, 1, Find(s, c, 1) - 1)>>
         \o Split(SubSeq(s, Find(s, c, 1) + 1, Len(s)), c)

COUNTRY_ID == <<"c","o","u","n","t","r","y","_","i","d">>

\* parse_qs(query): the (name, value) pairs of the fields that have an '='
\* and a non-empty value, '+' read as a space
ParseQs(query) ==
    LET fields == Split(query, "&")
        kept == SelectSeq(fields, LAMBDA f : Find(f, "=", 1) < Len(f))
    IN  [i \in 1..Len(kept) |->
            [name |-> replace(SubSeq(kept[i], 1, Find(kept[i], "=", 1) - 1),
                              "+", " "),
             value |-> replace(SubSeq(kept[i], Find(kept[i], "=", 1) + 1,
                                      Len(kept[i])), "+", " ")]]

\* the slug of the URL: <<slug>>, or <<>> for None
extract_country_slug(u) ==
    IF InvalidIPv6(u) THEN <<>>
    ELSE LET params == ParseQs(Query(u))
         IN  IF \E i \in 1..Len(params) : params[i].name = COUNTRY_ID
             THEN <<params[CHOOSE i \in 1..Len(params) :
                             /\ params[i].name = COUNTRY_ID
                             /\ \A k \in 1..(i - 1) :
                                   params[k].name # COUNTRY_ID].value>>
             ELSE <<>>

\* the alternatives of the title pattern
TITLE_QUALIFIERS ==
    <<
    \* 'Military Strength'
    <<"M","i","l","i","t","a","r","y"," ","S","t","r","e","n","g","t","h">>,
    \* '2025'
    <<"2","0","2","5">>,
    \* '2024'
    <<"2","0","2","4">>,
    \* '|'
    <<"|">>
    >>

\* the alternatives of the heading pattern
H1_QUALIFIERS ==
    <<
    \* 'Military Strength'
    <<"M","i","l","i","t","a","r","y"," ","S","t","r","e","n","g","t","h">>,
    \* 'Overview'
    <<"O","v","e","r","v","i","e","w">>
    >>

\* the length of the first alternative of quals that starts at q, 0 if none
QualifierAt(s, q, quals) ==
    IF \E k \in 1..Len(quals) : StartsAt(s, q, quals[k])
    THEN Len(quals[CHOOSE k \in 1..Len(quals) :
                     /\ StartsAt(s, q, quals[k])
                     /\ \A j \in 1..(k - 1) : ~StartsAt(s, q, quals[j])])
    ELSE 0

RECURSIVE StripQualifiers(_, _)
\* re.sub(r'\s*(A|B|...).*', '', s): every match is removed, a match runs
\* from the whitespace before a qualifier to the end of its line
StripQualifiers(s, quals) ==
    LET ps == { p \in 1..Len(s) :
                  QualifierAt(s, RunEnd(s, p, "space"), quals) # 0 }
        p == CHOOSE x \in ps : \A y \in ps : x <= y
        q == RunEnd(s, p, "space")
        e == RunEnd(s, q + QualifierAt(s, q, quals), "dot")
    IN  IF ps = {} THEN s
        ELSE SubSeq(s, 1, p - 1)
             \o StripQualifiers(SubSeq(s, e, Len(s)), quals)

UNKNOWN == <<"U","n","k","n","o","w","n">>

\* the tiers in another order: heading before title (mutation)
extract_country_name_H1First(t, h, u) ==
    LET from_title == strip(StripQualifiers(t.text, TITLE_QUALIFIERS))
        from_h1 == strip(StripQualifiers(h.text, H1_QUALIFIERS))
        slug == extract_country_slug(u)
    IN  IF h.present /\ from_h1 # <<>> THEN from_h1
        ELSE IF t.present /\ from_title # <<>> THEN from_title
        ELSE IF slug # <<>> /\ slug[1] # <<>>
        THEN title(replace(slug[1], "-", " "))
        ELSE UNKNOWN

extract_country_name(t, h, u) ==
    LET from_title == strip(StripQualifiers(t.text, TITLE_QUALIFIERS))
        from_h1 == strip(StripQualifiers(h.text, H1_QUALIFIERS))
        slug == extract_country_slug(u)
    IN  IF t.present /\ from_title # <<>> THEN from_title
        ELSE IF h.present /\ from_h1 # <<>> THEN from_h1
        ELSE IF slug # <<>> /\ slug[1] # <<>>
        THEN title(replace(slug[1], "-", " "))
        ELSE UNKNOWN

(***************************************************************************)
(* transform.py: run_transformation_pipeline.  A CSV file is its header    *)
(* and its records as texts; the texts of the files here are names, digit  *)
(* runs and the empty text.                                                *)
(***************************************************************************)
NoFile == [exists |-> FALSE, columns |-> <<>>, rows |-> <<>>]

\* the text is a run of digits
IsDigits(text) == text # <<>> /\ \A i \in 1..Len(text) : IsDigit(text[i])

\* the dtype pd.read_csv infers for column j
InferredDtype(file, j) ==
    IF \A r \in 1..Len(file.rows) : IsDigits(file.rows[r][j]) THEN "int64"
    ELSE IF \A r \in 1..Len(file.rows) :
               file.rows[r][j] = <<>> \/ IsDigits(file.rows[r][j])
    THEN "float64"
    ELSE "object"

\* pd.read_csv(filepath): an empty field is NaN, a column of integers is
\* int64, integers with empty fields float64, anything else text
read_csv(file) ==
    [columns |-> file.columns,
     rows |-> AsTuple([r \in 1..Len(file.rows) |->
         AsTuple([j \in 1..Len(file.columns) |->
             LET text == file.rows[r][j]
                 kind == InferredDtype(file, j)
             IN  IF text = <<>> THEN NaN
                 ELSE IF kind = "int64" THEN int(float(text))
                 ELSE IF kind = "float64" THEN float(text)
                 ELSE Str(text)])])]

\* load_raw_data(filepath): the table, or FileNotFoundError
load_raw_data(file) ==
    IF ~file.exists THEN [raised |-> "FileNotFoundError",
          table |-> [columns |-> <<>>, rows |-> <<>>]]
    ELSE [raised |-> "", table |-> read_csv(file)]

\* validate_data(df): logs the missing values and the outliers
validate_data(d) == d

NoOutput == [written |-> FALSE, table |-> <<>>]

\* DataFrame.to_csv(path, index=False): the file holds the table (the
\* values are kept as they are, not as their text)
to_csv(table) == [written |-> TRUE, table |-> table]

(***************************************************************************)
(* The name driver: a page (title, h1) and its URL are resolved to a name. *)
(***************************************************************************)
Tag(text) == [present |-> TRUE, text |-> text]

\* soup.find(...) returned None
NoTag == [present |-> FALSE, text |-> <<>>]

\* texts of the title tag
TitleTexts ==
    <<
    \* ''
    <<>>,
    \* 'India Military Strength 2025'
    <<"I","n","d","i","a"," ","M","i","l","i","t","a","r","y"," ","S","t","r",
    "e","n","g","t","h"," ","2","0","2","5">>,
    \* '2025 Military Strength'
    <<"2","0","2","5"," ","M","i","l","i","t","a","r","y"," ","S","t","r","e",
    "n","g","t","h">>,
    \* 'Peru | GFP'
    <<"P","e","r","u"," ","|"," ","G","F","P">>,
    \* 'Chad'
    <<"C","h","a","d">>,
    \* ' \n'
    <<" ","\n">>,
    \* 'Mali 2024\nFirepower'
    <<"M","a","l","i"," ","2","0","2","4","\n","F","i","r","e","p","o","w",
    "e","r">>,
    \* '  Fiji Overview '
    <<" "," ","F","i","j","i"," ","O","v","e","r","v","i","e","w"," ">>
    >>

\* texts of the h1 tag
H1Texts ==
    <<
    \* ''
    <<>>,
    \* 'India Overview'
    <<"I","n","d","i","a"," ","O","v","e","r","v","i","e","w">>,
    \* 'Military Strength Overview'
    <<"M","i","l","i","t","a","r","y"," ","S","t","r","e","n","g","t","h"," ",
    "O","v","e","r","v","i","e","w">>,
    \* 'Fiji 2025'
    <<"F","i","j","i"," ","2","0","2","5">>,
    \* 'Overview of Chad'
    <<"O","v","e","r","v","i","e","w"," ","o","f"," ","C","h","a","d">>
    >>

\* page URLs
Urls ==
    <<
    \* 'http://g/d.php'
    <<"h","t","t","p",":","/","/","g","/","d",".","p","h","p">>,
    \* 'http://g/d.php?country_id=united-states-of-america'
    <<"h","t","t","p",":","/","/","g","/","d",".","p","h","p","?","c","o","u",
    "n","t","r","y","_","i","d","=","u","n","i","t","e","d","-","s","t","a",
    "t","e","s","-","o","f","-","a","m","e","r","i","c","a">>,
    \* 'http://g/d.php?country_id='
    <<"h","t","t","p",":","/","/","g","/","d",".","p","h","p","?","c","o","u",
    "n","t","r","y","_","i","d","=">>,
    \* 'http://g/d.php?id=1&country_id=new+zealand#top'
    <<"h","t","t","p",":","/","/","g","/","d",".","p","h","p","?","i","d","=",
    "1","&","c","o","u","n","t","r","y","_","i","d","=","n","e","w","+","z",
    "e","a","l","a","n","d","#","t","o","p">>,
    \* "http://g/d.php?country_id=cote-d'ivoire&country_id=b"
    <<"h","t","t","p",":","/","/","g","/","d",".","p","h","p","?","c","o","u",
    "n","t","r","y","_","i","d","=","c","o","t","e","-","d","'","i","v","o",
    "i","r","e","&","c","o","u","n","t","r","y","_","i","d","=","b">>,
    \* 'http://g/d.php#?country_id=x'
    <<"h","t","t","p",":","/","/","g","/","d",".","p","h","p","#","?","c","o",
    "u","n","t","r","y","_","i","d","=","x">>,
    \* 'http://g/d.php?Country_id=x&country_id'
    <<"h","t","t","p",":","/","/","g","/","d",".","p","h","p","?","C","o","u",
    "n","t","r","y","_","i","d","=","x","&","c","o","u","n","t","r","y","_",
    "i","d">>,
    \* 'http://g[?country_id=x'
    <<"h","t","t","p",":","/","/","g","[","?","c","o","u","n","t","r","y","_",
    "i","d","=","x">>
    >>

NameIdle ==
    /\ soup_title = NoTag
    /\ soup_h1 = NoTag
    /\ url = <<>>
    /\ country_name = <<>>
    /\ cpc = "idle"

ExtractCountryName ==
    /\ cpc = "parsed"
    /\ country_name' = extract_country_name(soup_title, soup_h1, url)
    /\ cpc' = "named"
    /\ UNCHANGED <<soup_title, soup_h1, url>>
    /\ UNCHANGED <<nvars, tvars, xvars, mvars, dvars, pvars>>

NameNext == ExtractCountryName

(***************************************************************************)
(* scraper.py: scrape_country, save_to_csv and main.  A response is what   *)
(* session.get and the parser give for a URL: a page (title, h1, text) or  *)
(* the exception raised.  An Optional[Dict] is a sequence of at most one   *)
(* dict.                                                                   *)
(***************************************************************************)
RECURSIVE Update(_, _)
\* d.update(items)
Update(d, items) ==
    IF items = <<>> THEN d
    ELSE Update(DictSet(d, Head(items).name, Head(items).value), Tail(items))

\* what scrape_country returns for a response: <<data>>, or <<>> for None
scrape_country(u, response) ==
    IF response.kind # "ok" THEN <<>>
    ELSE <<Update(<<[name |-> COUNTRY,
                     value |-> extract_country_name(response.title,
                                                    response.h1, u)]>>,
                  extract_metrics_from_page(response.text))>>

\* the validity test of the loop with >= for > (mutation)
IsValid_AtLeast(d) == d # <<>> /\ Len(d[1]) >= MIN_FIELDS

\* if data and len(data) > 5
IsValid(d) == d # <<>> /\ d[1] # <<>> /\ Len(d[1]) > MIN_FIELDS

\* characters of the field names in code point order
CodePoints ==
    <<" ", "(", ")", "-", "/">> \o Digits \o Upper \o Lower

CodePoint(c) == CHOOSE i \in 1..Len(CodePoints) : CodePoints[i] = c

\* a < b for strings
Less(a, b) ==
    \E i \in 1..(Len(a) + 1) :
        /\ \A k \in 1..(i - 1) : k <= Len(b) /\ a[k] = b[k]
        /\ i <= Len(b)
        /\ (i = Len(a) + 1 \/ CodePoint(a[i]) < CodePoint(b[i]))

RECURSIVE Sorted(_)
\* sorted(names) for a set of names
Sorted(names) ==
    IF names = {} THEN <<>>
    ELSE LET least == CHOOSE a \in names : \A b \in names \ {a} : Less(a, b)
         IN  <<least>> \o Sorted(names \ {least})

NoCsv == [written |-> FALSE, columns |-> <<>>, rows |-> <<>>]

\* the file save_to_csv writes: Country first, the other columns sorted
save_to_csv(rows) ==
    IF rows = <<>> THEN NoCsv
    ELSE [written |-> TRUE,
          columns |-> <<COUNTRY>> \o
              Sorted(UNION { { rows[r][i].name : i \in 1..Len(rows[r]) } :
                             r \in 1..Len(rows) } \ {COUNTRY}),
          rows |-> rows]

(***************************************************************************)
(* transform.py: calculate_derived_metrics.  A number of the derived       *)
(* table is an exact fraction n/d (d > 0, lowest terms) or NaN; binary     *)
(* rounding is not modelled.  The derived table is the sequence of its     *)
(* columns (name, cells), in the order they were assigned.                 *)
(***************************************************************************)
RECURSIVE GCD(_, _)
GCD(a, b) == IF b = 0 THEN a ELSE GCD(b, a % b)

Abs(x) == IF x < 0 THEN -x ELSE x

\* the fraction n/d in lowest terms, d # 0
R(n, d) ==
    LET g == GCD(Abs(n), Abs(d))
        sign == IF d < 0 THEN -1 ELSE 1
    IN  [t |-> "float", n |-> sign * (n \div g), d |-> sign * (d \div g)]

RNaN == [t |-> "nan", n |-> 0, d |-> 1]

RInf(sign) == [t |-> "inf", n |-> sign, d |-> 1]

\* a cell of the clean table as a number of a float64 column
ToR(v) ==
    IF v.t \in {"float", "int"}
    THEN IF v.e >= 0 THEN R(v.m * Pow10(v.e), 1) ELSE R(v.m, Pow10(-v.e))
    ELSE IF v.t = "inf" THEN RInf(v.m)
    ELSE RNaN

IsR(x) == x.t = "float"

\* float arithmetic: NaN and inf operands give NaN here (no inf is reached)
RAdd(x, y) ==
    IF IsR(x) /\ IsR(y) THEN R(x.n * y.d + y.n * x.d, x.d * y.d) ELSE RNaN

RSub(x, y) ==
    IF IsR(x) /\ IsR(y) THEN R(x.n * y.d - y.n * x.d, x.d * y.d) ELSE RNaN

RMul(x, y) == IF IsR(x) /\ IsR(y) THEN R(x.n * y.n, x.d * y.d) ELSE RNaN

\* x / y: division by zero gives inf, or NaN for 0 / 0
RDiv(x, y) ==
    IF ~(IsR(x) /\ IsR(y)) THEN RNaN
    ELSE IF y.n # 0 THEN R(x.n * y.d, x.d * y.n)
    ELSE IF x.n = 0 THEN RNaN
    ELSE RInf(IF x.n > 0 THEN 1 ELSE -1)

RLess(x, y) == x.n * y.d < y.n * x.d

\* Series.fillna(0)
fillna0(cells) ==
    AsTuple([r \in 1..Len(cells) |-> IF IsR(cells[r]) THEN cells[r] ELSE R(0, 1)])

\* Series.min(): NaN is skipped, NaN when nothing is left
SeriesMin(cells) ==
    LET have == { r \in 1..Len(cells) : IsR(cells[r]) }
    IN  IF have = {} THEN RNaN
        ELSE cells[CHOOSE r \in have :
                     \A q \in have : ~RLess(cells[q], cells[r])]

\* Series.max()
SeriesMax(cells) ==
    LET have == { r \in 1..Len(cells) : IsR(cells[r]) }
    IN  IF have = {} THEN RNaN
        ELSE cells[CHOOSE r \in have :
                     \A q \in have : ~RLess(cells[r], cells[q])]

\* df[col] as numbers
Numbers(d, col) ==
    LET cells == Column(d, col)
    IN  AsTuple([r \in 1..Len(cells) |-> ToR(cells[r])])

\* df[col].dtype: int64 for integers only, float64 for numbers with
\* missing values, object for text and for a column with no number
dtype(d, col) ==
    LET cells == Column(d, col)
    IN  IF \E r \in 1..Len(cells) : cells[r].t = "str" THEN "object"
        ELSE IF \A r \in 1..Len(cells) : cells[r].t \in {"None", "nan"}
        THEN "object"
        ELSE IF \A r \in 1..Len(cells) : cells[r].t = "int" THEN "int64"
        ELSE "float64"

\* 'Power Index Rank'
POWER_INDEX_RANK ==
    <<"P","o","w","e","r"," ","I","n","d","e","x"," ","R","a","n","k">>

\* 'Power Index Score'
POWER_INDEX_SCORE ==
    <<"P","o","w","e","r"," ","I","n","d","e","x"," ","S","c","o","r","e">>

\* 'Power Index Rank Gap'
POWER_INDEX_RANK_GAP ==
    <<"P","o","w","e","r"," ","I","n","d","e","x"," ","R","a","n","k"," ","G",
    "a","p">>

\* '_per_capita'
PER_CAPITA == <<"_","p","e","r","_","c","a","p","i","t","a">>

\* 'Defense_Budget_to_GDP_Ratio'
DEFENSE_BUDGET_TO_GDP_RATIO ==
    <<"D","e","f","e","n","s","e","_","B","u","d","g","e","t","_","t","o","_",
    "G","D","P","_","R","a","t","i","o">>

\* 'Equipment_Total'
EQUIPMENT_TOTAL ==
    <<"E","q","u","i","p","m","e","n","t","_","T","o","t","a","l">>

\* 'Personnel_Total'
PERSONNEL_TOTAL ==
    <<"P","e","r","s","o","n","n","e","l","_","T","o","t","a","l">>

\* 'Military_Spending_per_Capita'
MILITARY_SPENDING_PER_CAPITA ==
    <<"M","i","l","i","t","a","r","y","_","S","p","e","n","d","i","n","g","_",
    "p","e","r","_","C","a","p","i","t","a">>


\* ["country_name", "url", "Power Index Rank"]
ScoreExclusions == {COUNTRY_NAME, URL, POWER_INDEX_RANK}

\* the loop that collects power_index_components
PowerIndexComponents(d) ==
    SelectSeq(d.columns,
              LAMBDA col : /\ col \notin ScoreExclusions
                           /\ dtype(d, col) \in {"float64", "int64"})

\* mutant: the column is scaled downwards from its maximum
Normalized_Inverted(cells) ==
    LET lo == SeriesMin(cells)
        hi == SeriesMax(cells)
    IN  IF RLess(R(0, 1), RSub(hi, lo))
        THEN AsTuple([r \in 1..Len(cells) |->
                 RDiv(RSub(hi, cells[r]), RAdd(RSub(hi, lo), R(1, 1)))])
        ELSE <<>>

\* the lambda of the score: a column scaled by its range, or the scalar 0
\* (<<>> here) when the column has no range
Normalized(cells) ==
    LET lo == SeriesMin(cells)
        hi == SeriesMax(cells)
    IN  IF RLess(R(0, 1), RSub(hi, lo))
        THEN AsTuple([r \in 1..Len(cells) |->
                 RDiv(RSub(cells[r], lo), RAdd(RSub(hi, lo), R(1, 1)))])
        ELSE <<>>

\* DataFrame.apply gives a Series, not a DataFrame, when the result for
\* the first column is a scalar; Series.sum(axis=1) then raises ValueError
ScoreRaises(d) ==
    LET cols == PowerIndexComponents(d)
    IN  cols # <<>> /\ Normalized(fillna0(Numbers(d, cols[1]))) = <<>>

RECURSIVE SumColumns(_, _)
\* DataFrame.sum(axis=1) over columns of cells; a scalar column (<<>>) is
\* broadcast as 0
SumColumns(columns, n) ==
    IF columns = <<>> THEN AsTuple([r \in 1..n |-> R(0, 1)])
    ELSE CHOOSE out \in
        { AsTuple([r \in 1..n |->
              IF Head(columns) = <<>> THEN rest[r]
              ELSE RAdd(Head(columns)[r], rest[r])]) :
            rest \in {SumColumns(Tail(columns), n)} } :
        TRUE

\* normalized.sum(axis=1)
PowerIndexScore(d) ==
    CHOOSE out \in
        { SumColumns(AsTuple([i \in 1..Len(cols) |->
                                Normalized(fillna0(Numbers(d, cols[i])))]),
                     Len(d.rows)) :
            cols \in {PowerIndexComponents(d)} } :
        TRUE

\* the columns whose lowered name holds one of the keywords
ColumnsWith(d, keywords) ==
    SelectSeq(d.columns, LAMBDA col : AnyKeyword(lower(col), keywords))

\* "population" in col.lower()
POPULATION_KEYWORDS ==
    <<
    <<"p","o","p","u","l","a","t","i","o","n">>
    >>

\* the equipment keywords of the per-capita columns
PER_CAPITA_KEYWORDS ==
    <<
    <<"a","i","r","c","r","a","f","t">>,
    <<"t","a","n","k">>,
    <<"h","e","l","i","c","o","p","t","e","r">>,
    <<"v","e","s","s","e","l">>
    >>

\* the equipment keywords of Equipment_Total
TOTAL_KEYWORDS ==
    <<
    <<"a","i","r","c","r","a","f","t">>,
    <<"t","a","n","k">>,
    <<"h","e","l","i","c","o","p","t","e","r">>,
    <<"s","u","b","m","a","r","i","n","e">>,
    <<"c","a","r","r","i","e","r">>
    >>

\* "personnel" in col.lower() or "active" in col.lower()
PERSONNEL_TOTAL_KEYWORDS ==
    <<
    <<"p","e","r","s","o","n","n","e","l">>,
    <<"a","c","t","i","v","e">>
    >>

\* 'budget'
BUDGET == <<"b","u","d","g","e","t">>

\* 'gdp'
GDP == <<"g","d","p">>

\* "gdp" in col.lower()
GDP_KEYWORDS ==
    <<
    <<"g","d","p">>
    >>


\* budget_cols: 'budget' in the name and 'gdp' not in it
BudgetCols(d) ==
    SelectSeq(d.columns,
              LAMBDA col : /\ Contains(lower(col), BUDGET)
                           /\ ~Contains(lower(col), GDP))

\* df_derived[name] = cells
Assign(derived, name, cells) ==
    IF \E i \in 1..Len(derived) : derived[i].name = name
    THEN AsTuple([i \in 1..Len(derived) |->
             IF derived[i].name = name
             THEN [name |-> name, cells |-> cells] ELSE derived[i]])
    ELSE Append(derived, [name |-> name, cells |-> cells])

\* x / (y + 1), cell by cell
PerOne(xs, ys) ==
    AsTuple([r \in 1..Len(xs) |-> RDiv(xs[r], RAdd(ys[r], R(1, 1)))])

\* the result of a call that raised
DeriveRaised(kind) == [raised |-> kind, derived |-> <<>>]

\* 1. df_derived["Power Index Score"]
WithScore(d, derived) ==
    IF PowerIndexComponents(d) # <<>>
    THEN Assign(derived, POWER_INDEX_SCORE, PowerIndexScore(d))
    ELSE derived

\* 2. df_derived["Power Index Rank"] and df_derived["Power Index Rank Gap"]
WithRankGap(d, derived) ==
    IF ~HasColumn(d, POWER_INDEX_RANK) THEN derived
    ELSE CHOOSE out \in
        { Assign(Assign(derived, POWER_INDEX_RANK, rank),
                 POWER_INDEX_RANK_GAP,
                 AsTuple([r \in 1..Len(rank) |-> RSub(rank[r], SeriesMin(rank))])) :
            rank \in { AsTuple([r \in 1..Len(d.rows) |->
                          ToR(extract_numeric(Column(d, POWER_INDEX_RANK)[r]))]) } } :
        TRUE

RECURSIVE AssignPerCapita(_, _, _, _)
\* the loop 'for eq_col in equipment_cols'
AssignPerCapita(d, derived, eq_cols, pop_col) ==
    IF eq_cols = <<>> THEN derived
    ELSE CHOOSE out \in
        { AssignPerCapita(d, next, Tail(eq_cols), pop_col) :
            next \in { Assign(derived, Head(eq_cols) \o PER_CAPITA,
                              PerOne(Numbers(d, Head(eq_cols)),
                                     Numbers(d, pop_col))) } } :
        TRUE

\* 3. df_derived[f"{eq_col}_per_capita"]
WithPerCapita(d, derived) ==
    LET population_cols == ColumnsWith(d, POPULATION_KEYWORDS)
        equipment_cols == ColumnsWith(d, PER_CAPITA_KEYWORDS)
    IN  IF population_cols # <<>> /\ equipment_cols # <<>>
        THEN AssignPerCapita(d, derived, equipment_cols, population_cols[1])
        ELSE derived

\* 4. df_derived["Defense_Budget_to_GDP_Ratio"]
WithBudgetToGdp(d, derived) ==
    LET budget_cols == BudgetCols(d)
        gdp_cols == ColumnsWith(d, GDP_KEYWORDS)
    IN  IF budget_cols # <<>> /\ gdp_cols # <<>>
        THEN CHOOSE out \in
            { Assign(derived, DEFENSE_BUDGET_TO_GDP_RATIO,
                     AsTuple([r \in 1..Len(ratio) |-> RMul(ratio[r], R(100, 1))])) :
                ratio \in { PerOne(Numbers(d, budget_cols[1]),
                                   Numbers(d, gdp_cols[1])) } } :
            TRUE
        ELSE derived

\* df[cols].fillna(0).sum(axis=1)
FilledSum(d, cols) ==
    SumColumns([i \in 1..Len(cols) |-> fillna0(Numbers(d, cols[i]))], Len(d.rows))

\* 5. df_derived["Equipment_Total"] and df_derived["Personnel_Total"]
WithTotals(d, derived) ==
    LET equipment_cols == ColumnsWith(d, TOTAL_KEYWORDS)
        personnel_cols == ColumnsWith(d, PERSONNEL_TOTAL_KEYWORDS)
    IN  CHOOSE out \in
        { IF personnel_cols # <<>>
          THEN Assign(with, PERSONNEL_TOTAL, FilledSum(d, personnel_cols))
          ELSE with :
            with \in { IF equipment_cols # <<>>
                       THEN Assign(derived, EQUIPMENT_TOTAL,
                                   FilledSum(d, equipment_cols))
                       ELSE derived } } :
        TRUE

\* 6. df_derived["Military_Spending_per_Capita"]
WithSpending(d, derived) ==
    LET budget_cols == BudgetCols(d)
        population_cols == ColumnsWith(d, POPULATION_KEYWORDS)
    IN  IF budget_cols # <<>> /\ population_cols # <<>>
        THEN Assign(derived, MILITARY_SPENDING_PER_CAPITA,
                    PerOne(Numbers(d, budget_cols[1]),
                           Numbers(d, population_cols[1])))
        ELSE derived

\* the metric columns, in the order the code assigns them
DerivedMetrics(d, derived0) ==
    CHOOSE out \in
        { WithSpending(d, d5) :
            d5 \in { WithTotals(d, d4) :
              d4 \in { WithBudgetToGdp(d, d3) :
                d3 \in { WithPerCapita(d, d2) :
                  d2 \in { WithRankGap(d, d1) :
                    d1 \in { WithScore(d, derived0) } } } } } } :
        TRUE

\* calculate_derived_metrics(df): the derived table, or the exception raised
calculate_derived_metrics(d) ==
    LET country_col == IF HasColumn(d, COUNTRY_NAME)
                       THEN COUNTRY_NAME ELSE COUNTRY
    IN  IF ~HasColumn(d, country_col) THEN DeriveRaised("KeyError")
        ELSE IF ScoreRaises(d) THEN DeriveRaised("ValueError")
        ELSE [raised |-> "",
              derived |-> DerivedMetrics(d,
                  <<[name |-> COUNTRY_NAME, cells |-> Column(d, country_col)]>>)]

(***************************************************************************)
(* The extraction driver: a page text is fetched, then extracted.          *)
(***************************************************************************)
\* the sentences a page text is made of
Sentences ==
    <<
    \* 'Total Aircraft ... Stock: 1,300'
    <<"T","o","t","a","l"," ","A","i","r","c","r","a","f","t"," ",".",".",".",
    " ","S","t","o","c","k",":"," ","1",",","3","0","0">>,
    \* 'Aircraft Total ... Stock: 1,300'
    <<"A","i","r","c","r","a","f","t"," ","T","o","t","a","l"," ",".",".",".",
    " ","S","t","o","c","k",":"," ","1",",","3","0","0">>,
    \* 'Active Personnel: 500,000'
    <<"A","c","t","i","v","e"," ","P","e","r","s","o","n","n","e","l",":"," ",
    "5","0","0",",","0","0","0">>,
    \* 'Defense Budget: $50,000,000'
    <<"D","e","f","e","n","s","e"," ","B","u","d","g","e","t",":"," ","$","5",
    "0",",","0","0","0",",","0","0","0">>,
    \* 'AIRCRAFT TOTAL Stock: 7'
    <<"A","I","R","C","R","A","F","T"," ","T","O","T","A","L"," ","S","t","o",
    "c","k",":"," ","7">>,
    \* 'active personnel: ,'
    <<"a","c","t","i","v","e"," ","p","e","r","s","o","n","n","e","l",":"," ",
    ",">>,
    \* 'Active Personnel: 500,0001'
    <<"A","c","t","i","v","e"," ","P","e","r","s","o","n","n","e","l",":"," ",
    "5","0","0",",","0","0","0","1">>,
    \* 'Aircraft Total\nStock: 42'
    <<"A","i","r","c","r","a","f","t"," ","T","o","t","a","l","\n","S","t",
    "o","c","k",":"," ","4","2">>,
    \* 'Oil Production: 1,000 bbl'
    <<"O","i","l"," ","P","r","o","d","u","c","t","i","o","n",":"," ","1",",",
    "0","0","0"," ","b","b","l">>,
    \* 'Oil Production: 12'
    <<"O","i","l"," ","P","r","o","d","u","c","t","i","o","n",":"," ","1",
    "2">>,
    \* 'Defense Budget: $ 5'
    <<"D","e","f","e","n","s","e"," ","B","u","d","g","e","t",":"," ","$"," ",
    "5">>,
    \* 'Ranked 3 of 145'
    <<"R","a","n","k","e","d"," ","3"," ","o","f"," ","1","4","5">>,
    \* 'PwrIndx* score of 0.0744'
    <<"P","w","r","I","n","d","x","*"," ","s","c","o","r","e"," ","o","f"," ",
    "0",".","0","7","4","4">>,
    \* 'Aircraft Total ... Stock: 1,300 Active Personnel: 500,000 Defense Budget: $50,000,000'
    <<"A","i","r","c","r","a","f","t"," ","T","o","t","a","l"," ",".",".",".",
    " ","S","t","o","c","k",":"," ","1",",","3","0","0"," ","A","c","t","i",
    "v","e"," ","P","e","r","s","o","n","n","e","l",":"," ","5","0","0",",",
    "0","0","0"," ","D","e","f","e","n","s","e"," ","B","u","d","g","e","t",
    ":"," ","$","5","0",",","0","0","0",",","0","0","0">>
    >>

RECURSIVE Join(_)
\* ' '.join(sentences)
Join(ss) ==
    IF ss = <<>> THEN <<>>
    ELSE IF Len(ss) = 1 THEN Head(ss)
    ELSE Head(ss) \o <<" ">> \o Join(Tail(ss))

\* page texts of at most MaxSentences sentences
Documents ==
    UNION { { Join([i \in 1..n |-> Sentences[ks[i]]]) :
                ks \in [1..n -> 1..Len(Sentences)] } :
            n \in 0..MaxSentences }

ExtractIdle ==
    /\ text_content = <<>>
    /\ xpc = "idle"
    /\ metrics = <<>>

ExtractMetricsFromPage ==
    /\ xpc = "fetched"
    /\ metrics' = extract_metrics_from_page(text_content)
    /\ xpc' = "extracted"
    /\ UNCHANGED text_content
    /\ UNCHANGED <<nvars, tvars, cvars, mvars, dvars, pvars>>

ExtractNext == ExtractMetricsFromPage

(***************************************************************************)
(* The scrape driver: main's loop over the URLs, then the save step.       *)
(***************************************************************************)
Page(t, h, text) == [kind |-> "ok", title |-> t, h1 |-> h, text |-> text]

Failure(exc) == [kind |-> exc, title |-> NoTag, h1 |-> NoTag, text |-> <<>>]

\* the responses a URL can get: pages with 6, 5, 4 and 0 metrics, and the
\* exceptions scrape_country catches
Responses ==
    { Page(Tag(TitleTexts[4]), NoTag,
           Join(<<Sentences[14], Sentences[12], Sentences[13]>>)),
      Page(Tag(TitleTexts[2]), NoTag, Join(<<Sentences[14], Sentences[12]>>)),
      Page(NoTag, Tag(H1Texts[2]), Join(<<Sentences[14], Sentences[13]>>)),
      Page(NoTag, NoTag, <<>>),
      Failure("Timeout"), Failure("HTTPError"),
      Failure("RequestException"), Failure("Exception") }

MainIdle ==
    /\ urls = <<>>
    /\ done = 0
    /\ data = <<>>
    /\ all_data = <<>>
    /\ successful_scrapes = 0
    /\ failed_scrapes = 0
    /\ failed_urls = <<>>
    /\ output_csv = NoCsv
    /\ mpc = "idle"

\* one turn of the loop 'for url in urls'
ScrapeUrl ==
    /\ mpc = "scraping"
    /\ done < Len(urls)
    /\ \E response \in Responses :
          \E d \in {scrape_country(urls[done + 1], response)} :
              /\ data' = d
              /\ IF IsValid(d)
                 THEN /\ all_data' = Append(all_data, d[1])
                      /\ successful_scrapes' = successful_scrapes + 1
                      /\ UNCHANGED <<failed_scrapes, failed_urls>>
                 ELSE /\ failed_scrapes' = failed_scrapes + 1
                      /\ failed_urls' = Append(failed_urls, urls[done + 1])
                      /\ UNCHANGED <<all_data, successful_scrapes>>
    /\ done' = done + 1
    /\ UNCHANGED <<urls, output_csv, mpc>>
    /\ UNCHANGED <<nvars, tvars, xvars, cvars, dvars, pvars>>

\* step 4: 'if all_data: save_to_csv(...)'
SaveCsv ==
    /\ mpc = "scraping"
    /\ done = Len(urls)
    /\ all_data # <<>>
    /\ output_csv' = save_to_csv(all_data)
    /\ mpc' = "saved"
    /\ UNCHANGED <<urls, done, data, all_data, successful_scrapes,
                   failed_scrapes, failed_urls>>
    /\ UNCHANGED <<nvars, tvars, xvars, cvars, dvars, pvars>>

\* step 4: 'else: sys.exit(1)'
ExitNoData ==
    /\ mpc = "scraping"
    /\ done = Len(urls)
    /\ all_data = <<>>
    /\ mpc' = "exit(1)"
    /\ UNCHANGED <<urls, done, data, all_data, successful_scrapes,
                   failed_scrapes, failed_urls, output_csv>>
    /\ UNCHANGED <<nvars, tvars, xvars, cvars, dvars, pvars>>

MainNext == ScrapeUrl \/ SaveCsv \/ ExitNoData

(***************************************************************************)
(* The cleaning driver: a raw table is classified, then cleaned.           *)
(***************************************************************************)
ColumnNames ==
    << COUNTRY, COUNTRY_NAME, URL, TOTAL_AIRCRAFT, ACTIVE_PERSONNEL,
       DEFENSE_BUDGET, LAND_AREA, RESERVE_BUDGET, ACTIVE_AIRCRAFT_BUDGET >>

\* the columns numbered in S, in the order of ColumnNames
SchemaOf(S) ==
    LET F[i \in 0..Len(ColumnNames)] ==
            IF i = 0 THEN <<>>
            ELSE IF i \in S THEN Append(F[i - 1], ColumnNames[i])
            ELSE F[i - 1]
    IN  F[Len(ColumnNames)]

\* the classifier example of the specification
ExampleSchema == <<TOTAL_AIRCRAFT, ACTIVE_PERSONNEL, DEFENSE_BUDGET, LAND_AREA>>

Schemas ==
    {ExampleSchema} \cup
    { SchemaOf(S) : S \in { T \in SUBSET (1..Len(ColumnNames)) : Cardinality(T) <= MaxCols } }

RawCells ==
    << Str(<<"1",",","3","0","0">>),
       Str(<<"1","2",".","9"," ","T","h","o","u","s","a","n","d">>),
       Str(<<"-">>),
       None,
       Str(<<"i","n","f">>) >>

IdentityValues == << Str(<<"I","n","d","i","a">>), Str(<<"1","2","3">>) >>

UrlValue == Str(<<"h","t","t","p",":","/","/","g","/","1">>)

\* row k of a table: column j holds raw cell k + j (cyclically), so that in
\* the tables of the model every column meets every raw cell
RowOf(k, columns) ==
    AsTuple([j \in 1..Len(columns) |->
        IF columns[j] \in {COUNTRY, COUNTRY_NAME}
        THEN IdentityValues[((k + j) % Len(IdentityValues)) + 1]
        ELSE IF columns[j] = URL THEN UrlValue
        ELSE RawCells[((k + j) % Len(RawCells)) + 1]])

Tables ==
    { [columns |-> cs, rows |-> AsTuple([i \in 1..Len(ks) |-> RowOf(ks[i], cs)])] :
        cs \in Schemas,
        ks \in UNION { [1..n -> 1..Len(RawCells)] : n \in 0..MaxRows } }

NoTable == [columns |-> <<>>, rows |-> <<>>]

TableIdle ==
    /\ df = NoTable
    /\ tpc = "idle"
    /\ columns_by_type = EmptyTypes
    /\ df_clean = NoTable


IdentifyMetricColumns ==
    /\ tpc = "loaded"
    /\ columns_by_type' = identify_metric_columns(df)
    /\ tpc' = "classified"
    /\ UNCHANGED <<df, df_clean>>
    /\ UNCHANGED <<nvars, xvars, cvars, mvars, dvars, pvars>>

CleanData ==
    /\ tpc = "classified"
    /\ \E out \in {clean_data(df)} :
          IF Raises(out)
          THEN tpc' = "raised" /\ df_clean' = df_clean
          ELSE tpc' = "cleaned" /\ df_clean' = out
    /\ UNCHANGED <<df, columns_by_type>>
    /\ UNCHANGED <<nvars, xvars, cvars, mvars, dvars, pvars>>

TableNext == IdentifyMetricColumns \/ CleanData

(***************************************************************************)
(* The derivation driver: clean tables of up to MaxRows records whose      *)
(* columns are 'Country' and up to MaxCols - 1 metric fields, in the       *)
(* sorted order in which the scraper writes them.                          *)
(***************************************************************************)
\* 'Total Population'
TOTAL_POPULATION ==
    <<"T","o","t","a","l"," ","P","o","p","u","l","a","t","i","o","n">>

\* 'Available Manpower'
AVAILABLE_MANPOWER ==
    <<"A","v","a","i","l","a","b","l","e"," ","M","a","n","p","o","w","e",
    "r">>

\* 'GDP (USD)'
GDP_USD == <<"G","D","P"," ","(","U","S","D",")">>

\* 'Patrol Vessels'
PATROL_VESSELS == <<"P","a","t","r","o","l"," ","V","e","s","s","e","l","s">>

\* 'Submarines'
SUBMARINES == <<"S","u","b","m","a","r","i","n","e","s">>


\* metric fields of the clean tables, in code-point order
DeriveColumnNames ==
    << ACTIVE_PERSONNEL, AVAILABLE_MANPOWER, DEFENSE_BUDGET, GDP_USD, GFP_RANK,
       PATROL_VESSELS, POWER_INDEX_RANK, SUBMARINES, TOTAL_AIRCRAFT,
       TOTAL_POPULATION >>

\* 'Country' and the fields numbered in S
DeriveSchemaOf(S) ==
    LET F[i \in 0..Len(DeriveColumnNames)] ==
            IF i = 0 THEN <<COUNTRY>>
            ELSE IF i \in S THEN Append(F[i - 1], DeriveColumnNames[i])
            ELSE F[i - 1]
    IN  F[Len(DeriveColumnNames)]

DeriveSchemas ==
    { DeriveSchemaOf(S) :
        S \in { T \in SUBSET (1..Len(DeriveColumnNames)) :
                  Cardinality(T) + 1 <= MaxCols } }

\* the kinds of record: what the odd and the even metric columns hold
RecordKinds ==
    << <<PyFloat(1, 0), PyFloat(1, 0)>>,
       <<PyFloat(1, 0), PyFloat(3, 0)>>,
       <<PyFloat(3, 0), PyFloat(1, 0)>>,
       <<None, PyFloat(2, 0)>> >>

CountryValues ==
    << Str(<<"I","n","d","i","a">>), Str(<<"P","e","r","u">>),
       Str(<<"C","u","b","a">>), Str(<<"M","a","l","i">>) >>

\* a record of kind k
RecordOf(k, columns) ==
    AsTuple([j \in 1..Len(columns) |->
        IF columns[j] = COUNTRY THEN CountryValues[k]
        ELSE RecordKinds[k][(j % 2) + 1]])

CleanTables ==
    { [columns |-> cs,
       rows |-> AsTuple([i \in 1..Len(ks) |-> RecordOf(ks[i], cs)])] :
        cs \in DeriveSchemas,
        ks \in UNION { [1..n -> 1..Len(RecordKinds)] : n \in 0..MaxRows } }

DeriveIdle ==
    /\ df_in = NoTable
    /\ df_before = NoTable
    /\ df_derived = <<>>
    /\ power_index_components = <<>>
    /\ dpc = "idle"

\* mutant: the missing values are filled in the caller's table
CalculateDerivedMetrics_InPlace ==
    /\ dpc = "clean"
    /\ \E out \in {calculate_derived_metrics(df_in)} :
          /\ df_derived' = out.derived
          /\ dpc' = IF out.raised = "" THEN "derived" ELSE "raised"
    /\ power_index_components' = PowerIndexComponents(df_in)
    /\ df_in' = [df_in EXCEPT !.rows =
           AsTuple([r \in 1..Len(df_in.rows) |->
               AsTuple([j \in 1..Len(df_in.columns) |->
                   IF df_in.rows[r][j] = None THEN PyFloat(0, 0)
                   ELSE df_in.rows[r][j]])])]
    /\ UNCHANGED df_before
    /\ UNCHANGED <<nvars, tvars, xvars, cvars, mvars, pvars>>

\* df_derived = calculate_derived_metrics(df_clean)
CalculateDerivedMetrics ==
    /\ dpc = "clean"
    /\ \E out \in {calculate_derived_metrics(df_in)} :
          /\ df_derived' = out.derived
          /\ dpc' = IF out.raised = "" THEN "derived" ELSE "raised"
    /\ power_index_components' = PowerIndexComponents(df_in)
    /\ UNCHANGED <<df_in, df_before>>
    /\ UNCHANGED <<nvars, tvars, xvars, cvars, mvars, pvars>>

DeriveNext == CalculateDerivedMetrics

(***************************************************************************)
(* The pipeline driver: run_transformation_pipeline on the file at         *)
(* INPUT_CSV, which is missing or holds up to MaxRows records.             *)
(***************************************************************************)
\* the headers of the raw files
FileSchemas ==
    { <<COUNTRY>>,
      <<COUNTRY, TOTAL_AIRCRAFT>>,
      <<COUNTRY, DEFENSE_BUDGET, TOTAL_POPULATION>>,
      <<COUNTRY, ACTIVE_PERSONNEL, GFP_RANK, TOTAL_AIRCRAFT>> }

\* the kinds of record of a file: the fields of its odd and even metrics
FileRecordKinds ==
    << << <<"1">>, <<"1">> >>,
       << <<"1">>, <<"3">> >>,
       << <<"3">>, <<"1">> >>,
       << <<>>, <<"2">> >> >>

FileRecordOf(k, columns) ==
    AsTuple([j \in 1..Len(columns) |->
        IF columns[j] = COUNTRY THEN CountryValues[k].s
        ELSE FileRecordKinds[k][(j % 2) + 1]])

RawFiles ==
    {NoFile} \cup
    { [exists |-> TRUE, columns |-> cs,
       rows |-> AsTuple([i \in 1..Len(ks) |-> FileRecordOf(ks[i], cs)])] :
        cs \in FileSchemas,
        ks \in UNION { [1..n -> 1..Len(FileRecordKinds)] : n \in 0..MaxRows } }

PipelineIdle ==
    /\ raw_file = NoFile
    /\ clean_csv = NoOutput
    /\ derived_csv = NoOutput
    /\ ppc = "idle"

\* df_raw = load_raw_data(INPUT_CSV)
LoadRawData ==
    /\ ppc = "start"
    /\ \E out \in {load_raw_data(raw_file)} :
          /\ df' = out.table
          /\ ppc' = IF out.raised = "" THEN "loaded" ELSE "failed"
    /\ UNCHANGED <<tpc, columns_by_type, df_clean>>
    /\ UNCHANGED <<raw_file, clean_csv, derived_csv>>
    /\ UNCHANGED <<nvars, xvars, cvars, mvars, dvars>>

\* df_clean = clean_data(df_raw)
CleanRawData ==
    /\ ppc = "loaded"
    /\ \E out \in {clean_data(df)} :
          IF Raises(out)
          THEN ppc' = "failed" /\ df_clean' = df_clean
          ELSE ppc' = "cleaned" /\ df_clean' = out
    /\ UNCHANGED <<df, tpc, columns_by_type>>
    /\ UNCHANGED <<raw_file, clean_csv, derived_csv>>
    /\ UNCHANGED <<nvars, xvars, cvars, mvars, dvars>>

\* df_clean = validate_data(df_clean)
ValidateCleanData ==
    /\ ppc = "cleaned"
    /\ df_clean' = validate_data(df_clean)
    /\ ppc' = "validated"
    /\ UNCHANGED <<df, tpc, columns_by_type>>
    /\ UNCHANGED <<raw_file, clean_csv, derived_csv>>
    /\ UNCHANGED <<nvars, xvars, cvars, mvars, dvars>>

\* mutant: an exception of the derivation is logged and swallowed
DeriveMetrics_Swallowed ==
    /\ ppc = "validated"
    /\ \E out \in {calculate_derived_metrics(df_clean)} :
          /\ df_derived' = out.derived
          /\ ppc' = "derived"
    /\ power_index_components' = PowerIndexComponents(df_clean)
    /\ UNCHANGED <<df_in, df_before, dpc>>
    /\ UNCHANGED <<raw_file, clean_csv, derived_csv>>
    /\ UNCHANGED <<nvars, tvars, xvars, cvars, mvars>>

\* df_derived = calculate_derived_metrics(df_clean)
DeriveMetrics ==
    /\ ppc = "validated"
    /\ \E out \in {calculate_derived_metrics(df_clean)} :
          /\ df_derived' = out.derived
          /\ ppc' = IF out.raised = "" THEN "derived" ELSE "failed"
    /\ power_index_components' = PowerIndexComponents(df_clean)
    /\ UNCHANGED <<df_in, df_before, dpc>>
    /\ UNCHANGED <<raw_file, clean_csv, derived_csv>>
    /\ UNCHANGED <<nvars, tvars, xvars, cvars, mvars>>

\* df_clean.to_csv(OUTPUT_CSV)
SaveCleanData ==
    /\ ppc = "derived"
    /\ clean_csv' = to_csv(df_clean)
    /\ ppc' = "clean saved"
    /\ UNCHANGED <<raw_file, derived_csv>>
    /\ UNCHANGED <<nvars, tvars, xvars, cvars, mvars, dvars>>

\* df_derived.to_csv(DERIVED_CSV), then the summary is logged
SaveDerivedMetrics ==
    /\ ppc = "clean saved"
    /\ derived_csv' = to_csv(df_derived)
    /\ ppc' = "completed"
    /\ UNCHANGED <<raw_file, clean_csv>>
    /\ UNCHANGED <<nvars, tvars, xvars, cvars, mvars, dvars>>

PipelineNext ==
    \/ LoadRawData
    \/ CleanRawData
    \/ ValidateCleanData
    \/ DeriveMetrics
    \/ SaveCleanData
    \/ SaveDerivedMetrics

(***************************************************************************)
(* The normalizer driver: one value is normalized, counted, and its        *)
(* result normalized again.                                                *)
(***************************************************************************)
Pieces ==
    { <<"0">>, <<"1">>, <<"5">>, <<".">>, <<",">>, <<" ">>, <<"$">>, <<"-">>,
      <<"k">>, <<"K">>,
      <<"B","i","l","l","i","o","n">>, <<"m","i","l","l","i","o","n">>,
      <<"T","h","o","u","s","a","n","d">>,
      <<"i","n","f">>, <<"n","a","n">> }

\* the examples of the docstring and of the specification
Examples ==
    { <<"2",".","3"," ","B","i","l","l","i","o","n">>,
      <<"1",",","2","3","4">>,
      <<"1","2",",","3","4","5">>,
      <<"1",".","5"," ","M","i","l","l","i","o","n">>,
      <<"1","2",".","9"," ","T","h","o","u","s","a","n","d">>,
      <<"-","1","2",".","9">> }

Texts ==
    Examples \cup
    { Concat(ps) : ps \in UNION { [1..n -> Pieces] : n \in 0..MaxPieces } }

Values == { Str(s) : s \in Texts } \cup { None, NaN }

NormInit ==
    /\ value \in Values
    /\ npc = "start"
    /\ multiplier = 0
    /\ numeric = Unset
    /\ count = Unset
    /\ again = Unset
    /\ again_str = Unset
    /\ TableIdle
    /\ ExtractIdle
    /\ NameIdle
    /\ MainIdle
    /\ DeriveIdle
    /\ PipelineIdle

NormalizeNumericValue ==
    /\ npc = "start"
    /\ numeric' = normalize_numeric_value(value)
    /\ multiplier' = IF IsAbsentInput(value) THEN 0
                     ELSE SelectMultiplier(strip(str(value)))
    /\ npc' = "normalized"
    /\ UNCHANGED <<value, count, again, again_str>>
    /\ UNCHANGED <<tvars, xvars, cvars, mvars, dvars, pvars>>

NormalizeEquipmentCount ==
    /\ npc = "normalized"
    /\ count' = normalize_equipment_count(value)
    /\ npc' = "counted"
    /\ UNCHANGED <<value, multiplier, numeric, again, again_str>>
    /\ UNCHANGED <<tvars, xvars, cvars, mvars, dvars, pvars>>

Renormalize ==
    /\ npc = "counted"
    /\ IsNumber(numeric)
    /\ again' = normalize_numeric_value(numeric)
    /\ again_str' = normalize_numeric_value(Str(str(numeric)))
    /\ npc' = "done"
    /\ UNCHANGED <<value, multiplier, numeric, count>>
    /\ UNCHANGED <<tvars, xvars, cvars, mvars, dvars, pvars>>

NormNext == NormalizeNumericValue \/ NormalizeEquipmentCount \/ Renormalize

NormIdle ==
    /\ value = None
    /\ npc = "idle"
    /\ multiplier = 0
    /\ numeric = Unset
    /\ count = Unset
    /\ again = Unset
    /\ again_str = Unset

TableInit ==
    /\ df \in Tables
    /\ tpc = "loaded"
    /\ columns_by_type = EmptyTypes
    /\ df_clean = NoTable
    /\ NormIdle
    /\ ExtractIdle
    /\ NameIdle
    /\ MainIdle
    /\ DeriveIdle
    /\ PipelineIdle

SpecClean == TableInit /\ [][TableNext]_vars

SpecNorm == NormInit /\ [][NormNext]_vars

ExtractInit ==
    /\ text_content \in Documents
    /\ xpc = "fetched"
    /\ metrics = <<>>
    /\ NormIdle
    /\ TableIdle
    /\ NameIdle
    /\ MainIdle
    /\ DeriveIdle
    /\ PipelineIdle

SpecExtract == ExtractInit /\ [][ExtractNext]_vars

NameInit ==
    /\ soup_title \in {NoTag} \cup {Tag(TitleTexts[i]) : i \in 1..Len(TitleTexts)}
    /\ soup_h1 \in {NoTag} \cup {Tag(H1Texts[i]) : i \in 1..Len(H1Texts)}
    /\ url \in {Urls[i] : i \in 1..Len(Urls)}
    /\ country_name = <<>>
    /\ cpc = "parsed"
    /\ NormIdle
    /\ TableIdle
    /\ ExtractIdle
    /\ MainIdle
    /\ DeriveIdle
    /\ PipelineIdle

SpecName == NameInit /\ [][NameNext]_vars

MainInit ==
    /\ urls \in { SubSeq(Urls, 1, n) : n \in 0..MaxUrls }
    /\ done = 0
    /\ data = <<>>
    /\ all_data = <<>>
    /\ successful_scrapes = 0
    /\ failed_scrapes = 0
    /\ failed_urls = <<>>
    /\ output_csv = NoCsv
    /\ mpc = "scraping"
    /\ NormIdle
    /\ TableIdle
    /\ ExtractIdle
    /\ NameIdle
    /\ DeriveIdle
    /\ PipelineIdle

SpecMain == MainInit /\ [][MainNext]_vars

DeriveInit ==
    /\ df_in \in CleanTables
    /\ df_before = df_in
    /\ df_derived = <<>>
    /\ power_index_components = <<>>
    /\ dpc = "clean"
    /\ NormIdle
    /\ TableIdle
    /\ ExtractIdle
    /\ NameIdle
    /\ MainIdle
    /\ PipelineIdle

SpecDerive == DeriveInit /\ [][DeriveNext]_vars

PipelineInit ==
    /\ raw_file \in RawFiles
    /\ clean_csv = NoOutput
    /\ derived_csv = NoOutput
    /\ ppc = "start"
    /\ NormIdle
    /\ TableIdle
    /\ ExtractIdle
    /\ NameIdle
    /\ MainIdle
    /\ DeriveIdle

SpecPipeline == PipelineInit /\ [][PipelineNext]_vars

(***************************************************************************)
(* Claims about the value normalizers (checked under SpecNorm).            *)
(***************************************************************************)
\* the text normalize_numeric_value works on: str(value).strip()
Text == strip(str(value))

\* the scale as the specification words it: 'billion', else 'million', else
\* 'thousand' or a trailing 'k', else 1
ClaimedScale(text) ==
    IF Contains(lower(text), Billion) THEN 1000000000
    ELSE IF Contains(lower(text), Million) THEN 1000000
    ELSE IF \/ Contains(lower(text), Thousand)
            \/ text # <<>> /\ lower(text)[Len(text)] = "k"
    THEN 1000
    ELSE 1

\* C5: normalize_numeric_value resolves the scale as x1e9 for 'billion',
\* x1e6 for 'million', x1e3 for 'thousand' or a trailing 'k' and x1
\* otherwise (a 'k' that is not trailing does not select x1e3), and
\* '2.3 Billion' gives 2300000000, '1,234' gives 1234.
C5_ScaleResolution ==
    (npc # "start" /\ ~IsAbsentInput(value)) =>
        /\ multiplier = ClaimedScale(Text)
        /\ value = Str(<<"2",".","3"," ","B","i","l","l","i","o","n">>)
              => numeric = PyFloat(23, 8)
        /\ value = Str(<<"1",",","2","3","4">>) => numeric = PyFloat(1234, 0)

\* C6: both normalizer entry points return a number or absent and never
\* raise; empty text, '-' and a missing marker give absent, and a text that
\* does not parse as a usable (finite) number gives absent.
C6_NeverRaises ==
    /\ npc # "start" => numeric.t \in {"None", "float"}
    /\ npc \in {"counted", "done"} => count.t \in {"None", "int"}
    /\ (npc # "start" /\ IsAbsentInput(value)) => numeric = None

\* |c| <= |v| < |c| + 1 with the sign of v, for a float v = m * 10^e, e < 0
IsTruncation(c, v) ==
    LET cabs == (IF c.m < 0 THEN -c.m ELSE c.m) * Pow10(c.e)
        vabs == IF v.m < 0 THEN -v.m ELSE v.m
    IN  /\ c.t = "int"
        /\ cabs * Pow10(-v.e) <= vabs
        /\ vabs < (cabs + 1) * Pow10(-v.e)
        /\ (c.m < 0 => v.m < 0) /\ (c.m > 0 => v.m > 0)

\* C7: normalize_equipment_count returns, whenever normalize_numeric_value
\* returns a number v, the integer truncation of v toward zero, and absent
\* exactly when normalize_numeric_value returns absent; '12.9 Thousand'
\* gives the integer 12900.
C7_Truncation ==
    npc \in {"counted", "done"} =>
        /\ (count = None) <=> (numeric = None)
        /\ IsNumber(numeric) =>
              /\ count.t = "int"
              /\ IF numeric.e >= 0
                 THEN count.m = numeric.m /\ count.e = numeric.e
                 ELSE IsTruncation(count, numeric)
        /\ value = Str(<<"1","2",".","9"," ","T","h","o","u","s","a","n","d">>)
              => count = PyInt(12900, 0)

\* C8: normalization is idempotent: a value x that normalize_numeric_value
\* returned, normalized again as a number or as its string form, gives x.
C8_Idempotent ==
    npc = "done" => (again = numeric /\ again_str = numeric)

(***************************************************************************)
(* Claims about the column classifier and the cleaning stage (checked      *)
(* under SpecClean).  A claim about the output table speaks of the calls   *)
(* of clean_data that return one.                                          *)
(***************************************************************************)
Str123 == Str(<<"1","2","3">>)

\* C1: for every input table and every record, the identity field's value
\* after clean_data equals its value before, whatever it looks like and
\* whichever identity column ('Country' or 'country_name') holds it.
C1_IdentityPreserved ==
    tpc = "cleaned" =>
        \A col \in {COUNTRY, COUNTRY_NAME} :
            HasColumn(df, col) =>
                /\ HasColumn(df_clean, col)
                /\ Column(df_clean, col) = Column(df, col)

\* a cleaned table with both identity columns, each holding the
\* numeric-looking identity '123' in some record
C1_Witness ==
    /\ tpc = "cleaned"
    /\ HasColumn(df, COUNTRY) /\ HasColumn(df, COUNTRY_NAME)
    /\ \E r \in 1..Len(df.rows) : Column(df_clean, COUNTRY)[r] = Str123
    /\ \E r \in 1..Len(df.rows) : Column(df_clean, COUNTRY_NAME)[r] = Str123

\* the table of the one record r of d
OneRow(d, r) == [columns |-> d.columns, rows |-> <<d.rows[r]>>]

\* C2: clean_data never drops a field or a record: the output has the
\* columns of the input and its records in the input order (record r of
\* the output is the cleaning of record r of the input), and an absent
\* result stays in place as a missing cell.
C2_ShapePreserved ==
    tpc = "cleaned" =>
        /\ df_clean.columns = df.columns
        /\ Len(df_clean.rows) = Len(df.rows)
        /\ \A r \in 1..Len(df.rows) :
              /\ Len(df_clean.rows[r]) = Len(df.columns)
              /\ df_clean.rows[r] = clean_data(OneRow(df, r)).rows[1]

\* a cleaned table of two different records in which a '-' cell became a
\* missing cell
C2_Witness ==
    /\ tpc = "cleaned"
    /\ Len(df.rows) = 2
    /\ df.rows[1] # df.rows[2]
    /\ \E r \in 1..Len(df.rows) : \E j \in 1..Len(df.columns) :
          df.rows[r][j] = Str(<<"-">>) /\ df_clean.rows[r][j] = None

\* the categories in priority order, and the keywords of each
Priority == <<"equipment", "personnel", "financial">>

KeywordsOf(kind) ==
    CASE kind = "equipment" -> equipment_keywords
      [] kind = "personnel" -> personnel_keywords
      [] kind = "financial" -> financial_keywords

Matches(name, kind) == AnyKeyword(lower(name), KeywordsOf(kind))

\* the first category, in priority order, one of whose keywords is a
\* substring of the name; 'other' when there is none
ClaimedCategory(name) ==
    LET hits == {i \in 1..3 : Matches(name, Priority[i])}
    IN  IF hits = {} THEN "other"
        ELSE Priority[CHOOSE i \in hits : \A k \in hits : i <= k]

\* the claimed category of every column, in column order
ClaimedCategories(cols) ==
    AsTuple([j \in 1..Len(cols) |-> ClaimedCategory(cols[j])])

\* the columns whose claimed category is kind, in column order
ColumnsOf(cols, cats, kind) ==
    LET F[i \in 0..Len(cols)] ==
            IF i = 0 THEN <<>>
            ELSE IF cats[i] = kind THEN Append(F[i - 1], cols[i])
            ELSE F[i - 1]
    IN  F[Len(cols)]

Occurrences(seq, x) == Cardinality({i \in 1..Len(seq) : seq[i] = x})

\* C3: identify_metric_columns puts every field name in exactly one of the
\* four categories, the first in the order equipment, personnel, financial
\* one of whose keywords it contains, else other; the result is a function
\* of the names alone; the four example names fall as the spec lists them.
C3_Classifier ==
    tpc \in {"classified", "cleaned", "raised"} =>
        /\ \E cats \in {ClaimedCategories(df.columns)} :
              \A kind \in {"equipment", "personnel", "financial", "other"} :
                  columns_by_type[kind] = ColumnsOf(df.columns, cats, kind)
        /\ \A j \in 1..Len(df.columns) :
              Occurrences(columns_by_type.equipment \o columns_by_type.personnel
                          \o columns_by_type.financial \o columns_by_type.other,
                          df.columns[j]) = 1
        /\ df.columns = ExampleSchema =>
              columns_by_type = [equipment |-> <<TOTAL_AIRCRAFT>>,
                                 personnel |-> <<ACTIVE_PERSONNEL>>,
                                 financial |-> <<DEFENSE_BUDGET>>,
                                 other |-> <<LAND_AREA>>]

\* a classified table with names that match several categories: 'Active
\* Aircraft Budget' (all three) and 'Reserve Budget' (personnel, financial)
C3_Witness ==
    /\ tpc = "classified"
    /\ Len(df.rows) > 0
    /\ columns_by_type.equipment = <<ACTIVE_AIRCRAFT_BUDGET>>
    /\ columns_by_type.personnel = <<RESERVE_BUDGET>>
    /\ Matches(ACTIVE_AIRCRAFT_BUDGET, "personnel")
    /\ Matches(ACTIVE_AIRCRAFT_BUDGET, "financial")
    /\ Matches(RESERVE_BUDGET, "financial")

\* the cell the claim expects for a column of category cat and raw cell v
ClaimedCell(col, cat, v) ==
    IF col \in {COUNTRY, COUNTRY_NAME, URL} THEN v
    ELSE CASE cat = "equipment" -> normalize_equipment_count(v)
           [] cat \in {"personnel", "financial"} -> normalize_numeric_value(v)
           [] cat = "other" -> extract_numeric(v)

\* C4: in clean_data every non-identity field is rewritten by the one
\* normalizer of its category: equipment by normalize_equipment_count,
\* personnel and financial by normalize_numeric_value, other by
\* extract_numeric; the identity columns and 'url' are left untouched.
C4_CategoryRouting ==
    tpc = "cleaned" =>
        \E cats \in {ClaimedCategories(df.columns)} :
            \A r \in 1..Len(df.rows) : \A j \in 1..Len(df.columns) :
                df_clean.rows[r][j] =
                    ClaimedCell(df.columns[j], cats[j], df.rows[r][j])

\* the example table cleaned: an integer in the equipment column, floats
\* in the personnel, financial and other columns
C4_Witness ==
    /\ tpc = "cleaned"
    /\ df.columns = ExampleSchema
    /\ \E r \in 1..Len(df.rows) : df_clean.rows[r][1].t = "int"
    /\ \E r \in 1..Len(df.rows) : df_clean.rows[r][2].t = "float"
    /\ \E r \in 1..Len(df.rows) : df_clean.rows[r][3].t = "float"
    /\ \E r \in 1..Len(df.rows) :
          df.rows[r][4].t = "str" /\ df_clean.rows[r][4].t = "float"

(***************************************************************************)
(* Claims about extract_metrics_from_page (checked under SpecExtract).     *)
(***************************************************************************)
\* the metric names of the catalog
CatalogNames ==
    { label_value_patterns[i].name : i \in 1..Len(label_value_patterns) }

\* a non-empty string of digits
IsNonNegativeInteger(s) == Len(s) >= 1 /\ \A i \in 1..Len(s) : s[i] \in DigitSet

\* s without its commas
WithoutCommas(s) ==
    LET F[i \in 0..Len(s)] ==
            IF i = 0 THEN <<>>
            ELSE IF s[i] = "," THEN F[i - 1] ELSE Append(F[i - 1], s[i])
    IN  F[Len(s)]

\* C9: every field recorded from the catalog holds a non-empty string of
\* digits, and a rule whose match captured text that is no non-negative
\* integer once the commas are removed (only commas, say) leaves no field.
C9_DigitsOnly ==
    xpc = "extracted" =>
        /\ \A i \in 1..Len(metrics) :
              metrics[i].name \in CatalogNames =>
                  IsNonNegativeInteger(metrics[i].value)
        /\ \E low \in {lower(text_content)} :
              \A k \in 1..Len(label_value_patterns) :
                  \E captured \in {Search(label_value_patterns[k],
                                          text_content, low)} :
                      (/\ captured # <<>>
                       /\ ~IsNonNegativeInteger(WithoutCommas(captured)))
                      => ~HasKey(metrics, label_value_patterns[k].name)

\* a page where one rule captured only commas and left no field, and
\* another rule recorded a value whose separators were removed
C9_Witness ==
    /\ xpc = "extracted"
    /\ \E low \in {lower(text_content)} :
          \E k, n \in 1..Len(label_value_patterns) :
              /\ Search(label_value_patterns[k], text_content, low) = <<",">>
              /\ ~HasKey(metrics, label_value_patterns[k].name)
              /\ "," \in { Search(label_value_patterns[n], text_content, low)[i] :
                           i \in 1..Len(Search(label_value_patterns[n],
                                               text_content, low)) }
              /\ HasKey(metrics, label_value_patterns[n].name)
              /\ Get(metrics, label_value_patterns[n].name) =
                     WithoutCommas(Search(label_value_patterns[n],
                                          text_content, low))

\* the leftmost position >= from where w occurs in s, 0 if none
FirstOccurrence(s, w, from) ==
    IF \E p \in from..Len(s) : StartsAt(s, p, w)
    THEN CHOOSE p \in from..Len(s) :
            StartsAt(s, p, w) /\ \A r \in from..(p - 1) : ~StartsAt(s, r, w)
    ELSE 0

\* no digit or comma at position i of s
EndsValue(s, i) == i > Len(s) \/ ~(s[i] \in DigitSet \/ s[i] = ",")

\* the first occurrence of label (case ignored) reads label ++ rest, and
\* the number at the end of rest stops there
FirstReads(s, label, rest) ==
    LET p == FirstOccurrence(lower(s), lower(label), 1)
    IN  /\ p > 0
        /\ StartsAt(s, p + Len(label), rest)
        /\ EndsValue(s, p + Len(label) + Len(rest))

\* the first occurrence of label (case ignored) is followed on its line by
\* a first 'Stock:' that reads 'Stock:' ++ rest
FirstStockReads(s, label, rest) ==
    LET p == FirstOccurrence(lower(s), lower(label), 1)
        q == FirstOccurrence(lower(s), STOCK, p + Len(label))
    IN  /\ p > 0
        /\ q > 0
        /\ \A i \in (p + Len(label))..(q - 1) : s[i] # "\n"
        /\ StartsAt(s, q + Len(STOCK), rest)
        /\ EndsValue(s, q + Len(STOCK) + Len(rest))

\* metrics[name] == digits
Yields(name, digits) == HasKey(metrics, name) /\ Get(metrics, name) = digits

\* a occurs in s and b occurs after it
Mentions(s, a, b) ==
    \E i \in 1..Len(s) :
        StartsAt(s, i, a) /\ FirstOccurrence(s, b, i + Len(a)) > 0

AIRCRAFT_TOTAL == <<"A","i","r","c","r","a","f","t"," ","T","o","t","a","l">>

ACTIVE_PERSONNEL_LABEL ==
    <<"A","c","t","i","v","e"," ","P","e","r","s","o","n","n","e","l",":">>

DEFENSE_BUDGET_LABEL == <<"D","e","f","e","n","s","e"," ","B","u","d","g","e","t",":">>

\* C10 as stated: a page containing 'Total Aircraft ... Stock: 1,300'
\* yields Total Aircraft=1300, one containing 'Active Personnel: 500,000'
\* yields Active Personnel=500000, and one containing
\* 'Defense Budget: $50,000,000' yields Defense Budget (USD)=50000000.
C10_ScenarioAsStated ==
    xpc = "extracted" =>
        /\ Mentions(text_content, TOTAL_AIRCRAFT, <<"S","t","o","c","k",":"," ","1",",","3","0","0">>)
              => Yields(TOTAL_AIRCRAFT, <<"1","3","0","0">>)
        /\ Contains(text_content, 
                  <<"A","c","t","i","v","e"," ","P","e","r","s","o","n","n",
                  "e","l",":"," ","5","0","0",",","0","0","0">>)
              => Yields(ACTIVE_PERSONNEL, <<"5","0","0","0","0","0">>)
        /\ Contains(text_content, 
                  <<"D","e","f","e","n","s","e"," ","B","u","d","g","e","t",
                  ":"," ","$","5","0",",","0","0","0",",","0","0","0">>)
              => Yields(DEFENSE_BUDGET, <<"5","0","0","0","0","0","0","0">>)

\* C10 (amended): the label of the aircraft rule is 'Aircraft Total'.  A
\* page whose first 'Aircraft Total' is followed on its line by a first
\* 'Stock:' reading 'Stock: 1,300' yields Total Aircraft=1300; a page whose
\* first 'Active Personnel:' reads 'Active Personnel: 500,000' yields
\* Active Personnel=500000; a page whose first 'Defense Budget:' reads
\* 'Defense Budget: $50,000,000' yields Defense Budget (USD)=50000000;
\* each number not directly followed by a further digit or comma.  A page
\* whose only aircraft text is 'Total Aircraft ... Stock: 1,300' yields no
\* Total Aircraft field.
C10_Scenario ==
    xpc = "extracted" =>
        /\ FirstStockReads(text_content, AIRCRAFT_TOTAL, <<" ","1",",","3","0","0">>)
              => Yields(TOTAL_AIRCRAFT, <<"1","3","0","0">>)
        /\ FirstReads(text_content, ACTIVE_PERSONNEL_LABEL, <<" ","5","0","0",",","0","0","0">>)
              => Yields(ACTIVE_PERSONNEL, <<"5","0","0","0","0","0">>)
        /\ FirstReads(text_content, DEFENSE_BUDGET_LABEL, 
                  <<" ","$","5","0",",","0","0","0",",","0","0","0">>)
              => Yields(DEFENSE_BUDGET, <<"5","0","0","0","0","0","0","0">>)
        /\ (/\ Mentions(text_content, TOTAL_AIRCRAFT, <<"S","t","o","c","k",":"," ","1",",","3","0","0">>)
            /\ ~Contains(lower(text_content), lower(AIRCRAFT_TOTAL)))
              => ~HasKey(metrics, TOTAL_AIRCRAFT)

\* a page on which all three substrings are first matches and all three
\* fields were recorded
C10_Witness ==
    /\ xpc = "extracted"
    /\ FirstStockReads(text_content, AIRCRAFT_TOTAL, <<" ","1",",","3","0","0">>)
    /\ FirstReads(text_content, ACTIVE_PERSONNEL_LABEL, <<" ","5","0","0",",","0","0","0">>)
    /\ FirstReads(text_content, DEFENSE_BUDGET_LABEL, 
                  <<" ","$","5","0",",","0","0","0",",","0","0","0">>)
    /\ Yields(TOTAL_AIRCRAFT, <<"1","3","0","0">>)
    /\ Yields(ACTIVE_PERSONNEL, <<"5","0","0","0","0","0">>)
    /\ Yields(DEFENSE_BUDGET, <<"5","0","0","0","0","0","0","0">>)

(***************************************************************************)
(* Claims about extract_country_name (checked under SpecName).             *)
(***************************************************************************)
\* what a tier produces: the tag's text without its qualifiers, stripped;
\* empty when the page has no such tag
TierOfTag(tag, quals) ==
    IF tag.present THEN strip(StripQualifiers(tag.text, quals)) ELSE <<>>

\* what the slug tier produces: the slug with '-' as spaces, title-cased
TierOfSlug(u) ==
    IF extract_country_slug(u) = <<>> THEN <<>>
    ELSE title(replace(extract_country_slug(u)[1], "-", " "))

\* C11: the name is the result of the first tier that is not empty, in the
\* order title, h1, URL slug; the sentinel 'Unknown' is the result exactly
\* when all three are empty; the name is never empty.
C11_NameTiers ==
    cpc = "named" =>
        \E t1 \in {TierOfTag(soup_title, TITLE_QUALIFIERS)},
           t2 \in {TierOfTag(soup_h1, H1_QUALIFIERS)},
           t3 \in {TierOfSlug(url)} :
            /\ country_name # <<>>
            /\ t1 # <<>> => country_name = t1
            /\ (t1 = <<>> /\ t2 # <<>>) => country_name = t2
            /\ (t1 = <<>> /\ t2 = <<>> /\ t3 # <<>>) => country_name = t3
            /\ (t1 = <<>> /\ t2 = <<>> /\ t3 = <<>>) <=> country_name = UNKNOWN

\* a page whose title and heading are all qualifiers, named from its slug
C11_Witness ==
    /\ cpc = "named"
    /\ soup_title.present /\ soup_title.text # <<>>
    /\ TierOfTag(soup_title, TITLE_QUALIFIERS) = <<>>
    /\ soup_h1.present /\ soup_h1.text # <<>>
    /\ TierOfTag(soup_h1, H1_QUALIFIERS) = <<>>
    /\ country_name = 
           <<"U","n","i","t","e","d"," ","S","t","a","t","e","s"," ","O","f",
           " ","A","m","e","r","i","c","a">>

(***************************************************************************)
(* Claims about main's scrape loop (checked under SpecMain).               *)
(***************************************************************************)
\* the fields of a record other than its identity
MetricCount(record) ==
    Cardinality({ i \in 1..Len(record) : record[i].name # COUNTRY })

\* scraping returned a record with at least 5 metrics
Usable(d) == d # <<>> /\ MetricCount(d[1]) >= 5

\* a turn of the loop classifies its URL once: kept and counted as
\* successful, or counted as failed with its URL recorded
ClassifiedOnce ==
    done' = done + 1 =>
        IF Usable(data')
        THEN /\ all_data' = Append(all_data, data'[1])
             /\ successful_scrapes' = successful_scrapes + 1
             /\ failed_scrapes' = failed_scrapes
             /\ failed_urls' = failed_urls
        ELSE /\ all_data' = all_data
             /\ successful_scrapes' = successful_scrapes
             /\ failed_scrapes' = failed_scrapes + 1
             /\ failed_urls' = Append(failed_urls, urls[done + 1])

\* successful + failed is the number of URLs processed, and the two lists
\* are as long as their counters
CountersAgree ==
    /\ successful_scrapes + failed_scrapes = done
    /\ Len(all_data) = successful_scrapes
    /\ Len(failed_urls) = failed_scrapes
    /\ done <= Len(urls)

\* C12: every URL of the loop is classified exactly once, successful iff
\* scraping returned a record with at least 5 metrics (len(data) > 5), and
\* after any number of URLs the counters and the lists agree.
C12_ScrapeLoop == [][ClassifiedOnce]_vars /\ []CountersAgree

\* the loop has ended with a kept record, a failed request and, last, a
\* page that gave only 4 metrics and was rejected
C12_Witness ==
    /\ mpc = "scraping"
    /\ done = Len(urls)
    /\ successful_scrapes >= 1
    /\ failed_scrapes >= 2
    /\ data # <<>>
    /\ MetricCount(data[1]) = 4
    /\ failed_urls[Len(failed_urls)] = urls[done]

(***************************************************************************)
(* Claims about the derived metrics (checked under SpecDerive).            *)
(***************************************************************************)
\* the call has been made (it returned or raised)
Called == dpc \in {"derived", "raised"}

Returned == dpc = "derived"

DerivedNames == { df_derived[i].name : i \in 1..Len(df_derived) }

\* the cells of a derived column
DerivedColumn(name) ==
    df_derived[CHOOSE i \in 1..Len(df_derived) : df_derived[i].name = name].cells

\* the fields that are numeric in the clean table
NumericFields ==
    { col \in { df_in.columns[j] : j \in 1..Len(df_in.columns) } :
        \E r \in 1..Len(df_in.rows) :
            Column(df_in, col)[r].t \in {"float", "int"} }

RankFields == {POWER_INDEX_RANK, GFP_RANK}

\* C13: the columns summed into 'Power Index Score' are the numeric fields
\* except the identity fields ('Country', 'country_name'), 'url' and the
\* rank fields ('Power Index Rank', 'GFP Rank'); none of these is ever a
\* component of the score.
C13_ScoreComponents ==
    Called =>
        { power_index_components[i] : i \in 1..Len(power_index_components) }
            = NumericFields \ ({COUNTRY, COUNTRY_NAME, URL} \cup RankFields)

\* 'rank'
RANK == <<"r","a","n","k">>

\* the rank-like fields of the clean table
RankLikeFields ==
    { col \in { df_in.columns[j] : j \in 1..Len(df_in.columns) } :
        Contains(lower(col), RANK) }

\* the cells of column 'name' are the ranks of 'col' minus the lowest of them
IsGapOf(name, col) ==
    LET rank == Numbers(df_in, col)
        gap == DerivedColumn(name)
    IN  \A r \in 1..Len(rank) :
           /\ gap[r] = RSub(rank[r], SeriesMin(rank))
           /\ IsR(gap[r]) => gap[r].n >= 0
           /\ (IsR(rank[r]) /\ rank[r] = SeriesMin(rank)) => gap[r] = R(0, 1)

\* C14: if the clean table has a rank-like field, the derived table has a
\* rank gap column holding, for each record, its rank minus the minimum
\* rank of all records: 0 for the record with the minimum rank, never
\* negative.
C14_RankGap ==
    (Returned /\ RankLikeFields # {}) =>
        /\ POWER_INDEX_RANK_GAP \in DerivedNames
        /\ \E col \in RankLikeFields : IsGapOf(POWER_INDEX_RANK_GAP, col)

\* the part of C14 the code keeps: a gap is computed from 'Power Index Rank'
C14_GapOfPowerIndexRank ==
    Returned =>
        /\ POWER_INDEX_RANK_GAP \in DerivedNames
              <=> HasColumn(df_in, POWER_INDEX_RANK)
        /\ HasColumn(df_in, POWER_INDEX_RANK)
              => IsGapOf(POWER_INDEX_RANK_GAP, POWER_INDEX_RANK)

\* the fields the Column Classifier puts in a category
Classified(kind) ==
    LET fields == identify_metric_columns(df_in)[kind]
    IN  { fields[i] : i \in 1..Len(fields) }

\* the population-like columns, in table order
PopulationFields ==
    SelectSeq(df_in.columns,
              LAMBDA col : Contains(lower(col), <<"p","o","p","u","l","a","t","i","o","n">>))

\* the derived columns named '<field>_per_capita'
PerCapitaNames ==
    { name \in DerivedNames :
        /\ Len(name) >= Len(PER_CAPITA)
        /\ SubSeq(name, Len(name) - Len(PER_CAPITA) + 1, Len(name)) = PER_CAPITA }

\* how many derived columns carry the name
Carrying(name) ==
    Cardinality({ i \in 1..Len(df_derived) : df_derived[i].name = name })

\* C15: with a population column P (the first one detected), the derived
\* table has exactly one per-capita column for every equipment-classified
\* field E, valued E / (P + 1) per record, and no per-capita column for any
\* other field.
C15_PerCapita ==
    (Returned /\ PopulationFields # <<>>) =>
        /\ \A E \in Classified("equipment") :
              /\ Carrying(E \o PER_CAPITA) = 1
              /\ DerivedColumn(E \o PER_CAPITA)
                    = PerOne(Numbers(df_in, E), Numbers(df_in, PopulationFields[1]))
        /\ PerCapitaNames = { E \o PER_CAPITA : E \in Classified("equipment") }

\* the part of C15 the code keeps: every per-capita column is E / (P + 1) of
\* an equipment-classified field E
C15_PerCapitaOnlyEquipment ==
    Returned =>
        \A name \in PerCapitaNames :
            /\ PopulationFields # <<>>
            /\ \E E \in Classified("equipment") :
                  /\ name = E \o PER_CAPITA
                  /\ DerivedColumn(name)
                        = PerOne(Numbers(df_in, E), Numbers(df_in, PopulationFields[1]))

\* the sum over the fields of a record, a missing value counting as 0
SumOfFields(fields, r) ==
    LET names == SelectSeq(df_in.columns, LAMBDA col : col \in fields)
    IN  SumColumns([i \in 1..Len(names) |-> fillna0(Numbers(df_in, names[i]))],
                   Len(df_in.rows))[r]

\* C16: for every record, Equipment_Total is the sum of all its
\* equipment-classified fields and Personnel_Total the sum of all its
\* personnel-classified fields (the Column Classifier's categories), a
\* missing value counting as 0.
C16_Totals ==
    Returned =>
        /\ Classified("equipment") # {} =>
              /\ EQUIPMENT_TOTAL \in DerivedNames
              /\ \A r \in 1..Len(df_in.rows) :
                    DerivedColumn(EQUIPMENT_TOTAL)[r]
                        = SumOfFields(Classified("equipment"), r)
        /\ Classified("personnel") # {} =>
              /\ PERSONNEL_TOTAL \in DerivedNames
              /\ \A r \in 1..Len(df_in.rows) :
                    DerivedColumn(PERSONNEL_TOTAL)[r]
                        = SumOfFields(Classified("personnel"), r)

\* the columns whose lowered name holds the word
Like(word) ==
    { col \in { df_in.columns[j] : j \in 1..Len(df_in.columns) } :
        Contains(lower(col), word) }

\* a derived column is left out when a kind of field it needs is missing
Omitted ==
    /\ Like(POPULATION_KEYWORDS[1]) = {} =>
          PerCapitaNames = {} /\ MILITARY_SPENDING_PER_CAPITA \notin DerivedNames
    /\ Like(GDP) = {} => DEFENSE_BUDGET_TO_GDP_RATIO \notin DerivedNames
    /\ Like(BUDGET) = {} =>
          /\ DEFENSE_BUDGET_TO_GDP_RATIO \notin DerivedNames
          /\ MILITARY_SPENDING_PER_CAPITA \notin DerivedNames
    /\ RankLikeFields = {} => POWER_INDEX_RANK_GAP \notin DerivedNames
    /\ Classified("equipment") = {} =>
          PerCapitaNames = {} /\ EQUIPMENT_TOTAL \notin DerivedNames
    /\ Classified("personnel") = {} => PERSONNEL_TOTAL \notin DerivedNames

\* a kind of field required by a derived metric is missing from the table
SomeKindMissing ==
    \/ Like(POPULATION_KEYWORDS[1]) = {}
    \/ Like(GDP) = {}
    \/ Like(BUDGET) = {}
    \/ RankLikeFields = {}
    \/ Classified("equipment") = {}
    \/ Classified("personnel") = {}

\* C17: when the clean table lacks a kind of field a derived metric needs
\* (population, budget, GDP, rank, equipment, personnel), the call
\* completes without error and leaves the corresponding derived column
\* out, with no placeholder.
C17_MissingInputs ==
    (Called /\ SomeKindMissing) => (Returned /\ Omitted)

\* the part of C17 the code keeps: a call that returns leaves the columns out
C17_OmittedWhenReturned == Returned => Omitted

\* the identity values of the clean table, in record order
IdentityColumn ==
    Column(df_in, IF HasColumn(df_in, COUNTRY_NAME) THEN COUNTRY_NAME ELSE COUNTRY)

\* C18: calculate_derived_metrics never changes the clean table (columns,
\* rows and cells are those of before the call) and returns a separate
\* table with exactly one row per input record, in the input order, keyed
\* by the record's identity value.
C18_InputUntouched ==
    /\ Called => df_in = df_before
    /\ Returned =>
          /\ df_derived[1].name = COUNTRY_NAME
          /\ df_derived[1].cells = IdentityColumn
          /\ \A i \in 1..Len(df_derived) :
                Len(df_derived[i].cells) = Len(df_in.rows)

\* a returned call on two records with a missing value, with derived metrics
C18_Witness ==
    /\ Returned
    /\ Len(df_in.rows) = 2
    /\ df_in.rows[1][1] # df_in.rows[2][1]
    /\ \E r \in 1..2 : \E j \in 1..Len(df_in.columns) : df_in.rows[r][j] = None
    /\ Len(df_derived) >= 3
    /\ df_derived[1].cells = <<df_in.rows[1][1], df_in.rows[2][1]>>

\* (x - min_c) / (max_c - min_c + 1) for the value x of record r in column c,
\* a missing value taken as 0
Scaled(col, r) ==
    LET xs == fillna0(Numbers(df_in, col))
        lo == SeriesMin(xs)
        hi == SeriesMax(xs)
    IN  RDiv(RSub(xs[r], lo), RAdd(RSub(hi, lo), R(1, 1)))

RECURSIVE ScoreOver(_, _)
\* the sum of the scaled values of record r over the columns
ScoreOver(cols, r) ==
    IF cols = <<>> THEN R(0, 1)
    ELSE RAdd(Scaled(Head(cols), r), ScoreOver(Tail(cols), r))

\* C20: the composite score of a record is the sum over the component
\* columns c of (x - min_c) / (max_c - min_c + 1), a missing x taken as 0;
\* a column with max_c = min_c (every column of a single-record table)
\* contributes 0 to every score and the calculation still completes.
C20_Score ==
    (Called /\ power_index_components # <<>>) =>
        /\ Returned
        /\ POWER_INDEX_SCORE \in DerivedNames
        /\ \A r \in 1..Len(df_in.rows) :
              DerivedColumn(POWER_INDEX_SCORE)[r]
                  = ScoreOver(power_index_components, r)

\* the part of C20 the code keeps: the score of a call that returns
C20_ScoreWhenReturned ==
    (Returned /\ power_index_components # <<>>) =>
        /\ POWER_INDEX_SCORE \in DerivedNames
        /\ \A r \in 1..Len(df_in.rows) :
              DerivedColumn(POWER_INDEX_SCORE)[r]
                  = ScoreOver(power_index_components, r)

(***************************************************************************)
(* Claims about the pipeline run (checked under SpecPipeline and SpecMain).*)
(***************************************************************************)
\* the transformation was given a table with a header and zero records
ZeroRecords == ppc \notin {"idle", "start"} /\ raw_file.exists /\ raw_file.rows = <<>>

\* the scrape stage is over and collected no usable record
NothingScraped == mpc \notin {"idle", "scraping"} /\ all_data = <<>>

\* C19: a run in which no record reaches cleaning is a hard stop: it ends
\* in failure and never writes an empty clean table or derived table, in
\* the scrape stage (no usable record collected) and in the transformation
\* stage (input table with zero records) alike.
C19_HardStop ==
    /\ NothingScraped => (mpc = "exit(1)" /\ ~output_csv.written)
    /\ ZeroRecords =>
          /\ ~clean_csv.written
          /\ ~derived_csv.written
          /\ ppc # "completed"

\* the part of C19 the code keeps: the scrape stage
C19_ScrapeStage ==
    NothingScraped => (mpc = "exit(1)" /\ ~output_csv.written)

\* records r and q differ in the component field c and in no other metric
\* field, and c has a positive range across the table
DifferOnlyIn(r, q, c) ==
    LET xs == fillna0(Numbers(df_in, c))
    IN  /\ Column(df_in, c)[r] # Column(df_in, c)[q]
        /\ \A j \in 1..Len(df_in.columns) :
              (df_in.columns[j] \notin {c, COUNTRY, COUNTRY_NAME})
                  => df_in.rows[r][j] = df_in.rows[q][j]
        /\ RLess(SeriesMin(xs), SeriesMax(xs))

\* the value of record r in field c is larger than that of record q
Larger(r, q, c) ==
    LET xs == Numbers(df_in, c)
    IN  IsR(xs[r]) /\ IsR(xs[q]) /\ RLess(xs[q], xs[r])

\* C21: composite score monotonicity: of two records of a table that differ
\* only in one component field with a positive range, the one with the
\* larger value has a composite score greater than or equal to the other's.
C21_Monotone ==
    (Returned /\ power_index_components # <<>>) =>
        \A r, q \in 1..Len(df_in.rows) :
            \A i \in 1..Len(power_index_components) :
                (/\ DifferOnlyIn(r, q, power_index_components[i])
                 /\ Larger(r, q, power_index_components[i]))
                    => ~RLess(DerivedColumn(POWER_INDEX_SCORE)[r],
                              DerivedColumn(POWER_INDEX_SCORE)[q])

\* two components, two records that differ in one of them only, scored
C21_Witness ==
    /\ Returned
    /\ Len(power_index_components) = 2
    /\ \E r, q \in 1..Len(df_in.rows) :
          \E i \in 1..2 :
              /\ DifferOnlyIn(r, q, power_index_components[i])
              /\ Larger(r, q, power_index_components[i])
              /\ RLess(DerivedColumn(POWER_INDEX_SCORE)[q],
                       DerivedColumn(POWER_INDEX_SCORE)[r])

(***************************************************************************)
(* Claims about the independence of the rules (checked under SpecExtract). *)
(***************************************************************************)
\* a mapping as the set of its (name, value) items
Items(dict) == { dict[i] : i \in 1..Len(dict) }

\* the first match of every rule's own pattern in the page text
FirstMatches ==
    CHOOSE out \in
        { AsTuple([i \in 1..Len(label_value_patterns) |->
              Search(label_value_patterns[i], text_content, low)]) :
            low \in {lower(text_content)} } : TRUE

\* what rule i yields on its own, its first match being 'group'
AloneYields(i, group) ==
    IF group # <<>> /\ Keeps(RemoveCommas(group))
    THEN {[name |-> label_value_patterns[i].name, value |-> RemoveCommas(group)]}
    ELSE {}

RECURSIVE ApplyBackwards(_, _, _)
\* the rules applied from rule i down to the first rule
ApplyBackwards(i, groups, dict) ==
    IF i = 0 THEN dict
    ELSE CHOOSE out \in
            { ApplyBackwards(i - 1, groups, d) :
                d \in { IF AloneYields(i, groups[i]) = {} THEN dict
                        ELSE DictSet(dict, label_value_patterns[i].name,
                                     RemoveCommas(groups[i])) } } :
            TRUE

\* the items that come from the catalog loop
CatalogItems(dict) == { item \in Items(dict) : item.name \in CatalogNames }

\* C22: every catalog rule is evaluated on its own against the same text
\* and writes only its own field name, the names being unique in the
\* catalog; no rule short-circuits another, so the extracted mapping is the
\* union of the per-rule results whatever the order of the rules.
C22_RulesIndependent ==
    xpc = "extracted" =>
        /\ \A i, j \in 1..Len(label_value_patterns) :
              i # j => label_value_patterns[i].name # label_value_patterns[j].name
        /\ \E groups \in {FirstMatches} :
              /\ CatalogItems(metrics)
                    = UNION { AloneYields(i, groups[i]) : i \in 1..Len(groups) }
              /\ CatalogItems(metrics)
                    = Items(ApplyBackwards(Len(groups), groups, <<>>))

\* a page from which two different rules each yield a metric
C22_Witness ==
    /\ xpc = "extracted"
    /\ \E groups \in {FirstMatches} :
          \E i, j \in 1..Len(groups) :
              /\ i < j
              /\ AloneYields(i, groups[i]) # {}
              /\ AloneYields(j, groups[j]) # {}
              /\ AloneYields(i, groups[i]) \cup AloneYields(j, groups[j])
                    \subseteq Items(metrics)

(***************************************************************************)
(* Claims about the order of the stages (checked under SpecPipeline).      *)
(***************************************************************************)
\* the steps from one stage to the next, and from a stage to the failure
StageOrder ==
    { <<"start", "loaded">>, <<"loaded", "cleaned">>, <<"cleaned", "validated">>,
      <<"validated", "derived">>, <<"derived", "clean saved">>,
      <<"clean saved", "completed">> }
    \cup { <<stage, "failed">> : stage \in {"start", "loaded", "cleaned", "validated"} }

\* a step of the run: the next stage in order; an exception ends the run;
\* derivation starts from the whole cleaned table; the outputs are written
\* after the derivation only
StageStep ==
    /\ <<ppc, ppc'>> \in StageOrder
    /\ (ppc = "start" /\ ~raw_file.exists) => ppc' = "failed"
    /\ (ppc = "loaded" /\ Raises(clean_data(df))) => ppc' = "failed"
    /\ (ppc = "validated" /\ calculate_derived_metrics(df_clean).raised # "")
          => ppc' = "failed"
    /\ df_clean' # df_clean => ppc \in {"loaded", "cleaned"}
    /\ df_derived' # df_derived =>
          /\ ppc = "validated"
          /\ df_clean = clean_data(df)
          /\ Len(df_clean.rows) = Len(raw_file.rows)
    /\ clean_csv' # clean_csv => ppc = "derived"
    /\ derived_csv' # derived_csv => ppc = "clean saved"

\* an output exists only after every earlier stage has completed
WrittenLast ==
    /\ clean_csv.written => ppc \in {"clean saved", "completed"}
    /\ derived_csv.written => ppc = "completed"
    /\ ppc \in {"derived", "clean saved", "completed"} =>
          /\ df_clean = clean_data(df)
          /\ calculate_derived_metrics(df_clean).raised = ""
    /\ ppc = "failed" => (~clean_csv.written /\ ~derived_csv.written)

\* C23: the stages of run_transformation_pipeline run strictly in the order
\* load, clean (whole table), validate, derive, write clean table, write
\* derived table; derivation never starts before all records are cleaned,
\* no output is written unless load, clean, validate and derive have all
\* completed, and an exception in a stage is re-raised and ends the run.
C23_StageOrder == [][StageStep]_vars /\ []WrittenLast

\* a run over two records that wrote both outputs
C23_Witness ==
    /\ ppc = "completed"
    /\ Len(raw_file.rows) = 2
    /\ clean_csv.written
    /\ derived_csv.written
    /\ Len(derived_csv.table) >= 2

====
